---- MODULE Spec2Model ----
(***************************************************************************)
(* The dog pool of docs/design/dog-infrastructure.md: a fixed-capacity     *)
(* pool of shutdown dances, each driving one warrant through               *)
(* interrogate -> evaluate -> pardon|execute -> complete, with per-dance   *)
(* state files for crash recovery and a queue for warrants that arrive     *)
(* while every dog is busy.                                                *)
(***************************************************************************)
EXTENDS Integers, Sequences, FiniteSets, TLC

\* ------------------------------------------------------------- bounds
\* Warrants the driver files in one run of the model.
MaxWarrants == 3
\* Largest pool size the model draws at construction.
MaxCapacity == 2
\* Process crashes in one run of the model.
MaxCrashes == 1
\* Dance steps whose store write fails in one run of the model.
MaxSaveFails == 1
\* Process crashes in one run of the repeated-crash model.
MaxRecrashes == 3
\* Warrants the driver files in one run of the repeated-crash model.
RecrashWarrants == 1
\* State files an earlier process left behind.
MaxLeftBehind == 3

\* Status calls the Driver makes, and warrants filed while it polls.
MaxStatusCalls == 1
StatusWarrants == 2

\* Times one bead description is stripped of its queue section.
MaxStrips == 2

\* -------------------------------------------------- program constants
DefaultPoolSize == 5
MaxPoolSize == 20
MaxAttempts == 3
BaseTimeout == 60

StateIdle == "idle"
StateInterrogating == "interrogating"
StateEvaluating == "evaluating"
StatePardoned == "pardoned"
StateExecuting == "executing"
StateComplete == "complete"
StateFailed == "failed"

ErrNone == "none"
ErrInvalidWarrant == "InvalidWarrant"

\* The empty string of a Warrant's ID or Target.
Empty == 0

VARIABLES
    up,             \* the pool is constructed and has run Recover
    capacity,       \* DogPool.Capacity
    active,         \* DogPool.Active: dance ID -> running Dance
    pending,        \* DogPool.Pending: queue of Warrants
    storeActive,    \* PersistentTaskStore, active partition: dance ID -> record
    storeCompleted, \* PersistentTaskStore, completed partition
    nextDance,      \* next unused dance ID
    nextWarrant,    \* next unused warrant ID
    peeked,         \* probe: <<attempt, ALIVE shown>> of every evaluation (warrant ID ->)
    sessionUp,      \* probe: the target session exists (warrant ID ->)
    cancels,        \* times the warrant was cancelled (warrant ID ->)
    terminates,     \* times Terminate was called on the target (warrant ID ->)
    saveFailed,     \* warrants one of whose Dance's store writes failed
    tracked,        \* warrants this pool accepted by Submit or loaded by Recover
    startLog,       \* warrants in the order this pool allocated a Dance for them
    assignedTo,     \* warrant ID -> the dance IDs ever allocated for it
    finished,       \* dance ID -> the warrant and the state its Run returned with
    resumed,        \* dance IDs Recover re-admitted into Active
    waited,         \* warrants this pool's Submit put on Pending
    submitRet,      \* what the last Submit returned
    crashes,        \* crashes so far
    fails,          \* dance steps with a failed write so far
    \* the gt commands and the refinery, over a rig's beads and git repository
    beadsDB,        \* beads: bead ID -> bead
    gitRepo,        \* the rig's git repository and its origin
    rigCfg,         \* the rig's config.json and settings/config.json
    cmdIn,          \* the last invocation: the command, its flags and arguments
    cmdOut          \* what that invocation returned

dogVars == <<up, capacity, active, pending, storeActive, storeCompleted, nextDance,
             nextWarrant, peeked, sessionUp, cancels, terminates, saveFailed,
             tracked, startLog, assignedTo, finished, resumed, waited, submitRet,
             crashes, fails>>

cmdVars == <<beadsDB, gitRepo, rigCfg, cmdIn, cmdOut>>

vars == <<dogVars, cmdVars>>

poolVars == <<up, capacity, active, pending, nextDance, startLog, assignedTo,
              finished, resumed, waited, tracked>>
storeVars == <<storeActive, storeCompleted>>
probeVars == <<peeked, sessionUp>>
effectVars == <<cancels, terminates>>

\* ------------------------------------------------------------ helpers
EmptyMap == <<>>

Min(a, b) == IF a < b THEN a ELSE b

RECURSIVE SortedSeq(_)
\* The elements of a finite set of integers in increasing order.
SortedSeq(S) ==
    IF S = {} THEN <<>>
    ELSE LET m == CHOOSE x \in S : \A y \in S : x <= y
         IN <<m>> \o SortedSeq(S \ {m})

RECURSIVE Pow2(_)
Pow2(n) == IF n = 0 THEN 1 ELSE 2 * Pow2(n - 1)

Drop(f, k) == [x \in DOMAIN f \ {k} |-> f[x]]
Put(f, k, v) == [x \in DOMAIN f \cup {k} |-> IF x = k THEN v ELSE f[x]]

\* ---------------------------------------------------------- data model
\* Warrant{ID, Target}: Reason, Requester and FiledAt are carried unread.
Warrant(id, target) == [id |-> id, target |-> target]

ProbeNotAsked == "not asked"
ProbeGone == "gone"
ProbeExists == "exists"

\* A Dance as the pool holds it: the persisted fields, and where its goroutine
\* stands inside the Pardoned/Executing step (acted), how it was started, the
\* wait armed while the current attempt's answer is awaited (seconds) and
\* what the probe answered when a recovered Executing step verified the kill.
NewDance(w) ==
    [warrant |-> w, state |-> StateIdle, attempt |-> 1, acted |-> FALSE,
     recovered |-> FALSE, timeout |-> 0, verified |-> ProbeNotAsked]

\* The record Save writes: id (the key), warrant, state, attempt.
Record(d) == [warrant |-> d.warrant, state |-> d.state, attempt |-> d.attempt]

\* Faulty variant of Timeout: the wait grows by a minute instead of doubling.
TimeoutLinear(attempt) == BaseTimeout * attempt

\* Timeout Gates: 60s, 120s, 240s.
Timeout(attempt) == BaseTimeout * Pow2(attempt - 1)

\* SessionProbe: a session that is gone cannot be reached.
ProbeCan(w, reachable) == reachable => sessionUp[w.id]

\* Faulty variant of Verdict: ALIVE on the last attempt comes too late.
VerdictLateAlive(alive, attempt) ==
    IF alive /\ attempt < MaxAttempts
    THEN [state |-> StatePardoned, attempt |-> attempt]
    ELSE IF attempt < MaxAttempts
         THEN [state |-> StateInterrogating, attempt |-> attempt + 1]
         ELSE [state |-> StateExecuting, attempt |-> attempt]

\* Faulty variant of Verdict: one attempt too many before the execution.
VerdictExtraAttempt(alive, attempt) ==
    IF alive THEN [state |-> StatePardoned, attempt |-> attempt]
    ELSE IF attempt <= MaxAttempts
         THEN [state |-> StateInterrogating, attempt |-> attempt + 1]
         ELSE [state |-> StateExecuting, attempt |-> attempt]

\* Faulty variant of Verdict: the attempt is not counted up.
VerdictNoEscalation(alive, attempt) ==
    IF alive THEN [state |-> StatePardoned, attempt |-> attempt]
    ELSE IF attempt < MaxAttempts
         THEN [state |-> StateInterrogating, attempt |-> attempt]
         ELSE [state |-> StateExecuting, attempt |-> attempt]

\* Evaluating: where the Dance goes given what the probe output shows.
Verdict(alive, attempt) ==
    IF alive THEN [state |-> StatePardoned, attempt |-> attempt]
    ELSE IF attempt < MaxAttempts
         THEN [state |-> StateInterrogating, attempt |-> attempt + 1]
         ELSE [state |-> StateExecuting, attempt |-> attempt]

Terminal(s) == s \in {StateComplete, StateFailed}

\* Faulty variant of PoolFull: the admission test is off by one.
PoolFullOffByOne == Cardinality(DOMAIN active) > capacity

\* "If all dogs are busy when a new warrant arrives".
PoolFull == Cardinality(DOMAIN active) >= capacity

\* Faulty variant of QueueWarrant: the warrant jumps the queue.
QueueWarrantFront(q, w) == <<w>> \o q

\* "the warrant is queued for later processing".
QueueWarrant(q, w) == Append(q, w)

\* Faulty variant of NextQueued: the newest warrant gets the freed dog.
NextQueuedNewest(q) == q[Len(q)]

\* "When a dog completes and is released, the queue is checked for pending
\* warrants": the warrant that gets the freed dog, and the queue left.
NextQueued(q) == Head(q)

\* Faulty variant of RestQueued: the warrant that got the dog stays queued.
RestQueuedKeepsHead(q) == q

RestQueued(q) == Tail(q)

\* Faulty variant of MustTerminate: the kill is not verified after recovery.
MustTerminateAlways(d) == TRUE

\* Faulty variant of MustTerminate: the kill is taken for done.
MustTerminateNever(d) == FALSE

\* Recovery of executing: "Verify kill, mark complete".  A recovered Dance
\* terminates the session only when the probe still finds it.
MustTerminate(d) == ~(d.recovered /\ ~sessionUp[d.warrant.id])

\* Faulty variant of NeedsRecovery: a pardoned dance is run again.
NeedsRecoveryPardoned(rec) == rec.state # StateComplete

\* RecoverOrphans: a state file is resumed unless the dance is already done.
NeedsRecovery(rec) == rec.state # StateComplete /\ rec.state # StatePardoned

\* Faulty variant of ValidWarrant: the Target is not looked at.
ValidWarrantIdOnly(w) == w.id # Empty

\* InvalidWarrant: empty Target or ID.
ValidWarrant(w) == w.id # Empty /\ w.target # Empty

\* ------------------------------------------------------------- store
\* Faulty variant of Persist: the Dance goes on after a failed write.
PersistKeepsGoing(id, d, ok, okFailed) ==
    [dance |-> d,
     part |-> IF ok THEN Put(storeActive, id, Record(d)) ELSE storeActive]

\* Save(dance) followed, when the write fails, by the abort into Failed and the
\* write of the Failed record; ok and okFailed are the two writes' outcomes.
\* Gives the Dance as it stands after the step and the active partition.
Persist(id, d, ok, okFailed) ==
    IF ok
    THEN [dance |-> d, part |-> Put(storeActive, id, Record(d))]
    ELSE LET f == [d EXCEPT !.state = StateFailed]
         IN [dance |-> f,
             part |-> IF okFailed THEN Put(storeActive, id, Record(f))
                      ELSE storeActive]

\* A Dance step ends by persisting d: the bookkeeping every such step shares.
EndStep(id, d, ok, okFailed) ==
    LET r == Persist(id, d, ok, okFailed)
    IN /\ ~ok => fails < MaxSaveFails
       /\ active' = [active EXCEPT ![id] = r.dance]
       /\ storeActive' = r.part
       /\ fails' = IF ok THEN fails ELSE fails + 1
       /\ saveFailed' = IF ok THEN saveFailed ELSE saveFailed \cup {d.warrant.id}
       /\ UNCHANGED <<up, capacity, pending, storeCompleted, nextDance,
                      nextWarrant, tracked, startLog, assignedTo, finished,
                      resumed, waited, submitRet, crashes, cmdVars>>

\* ------------------------------------------------------------ DogPool
\* Allocate a Dance for warrant w in pool map a, under dance ID id.
Allocate(a, id, w) == Put(a, id, NewDance(w))

NoteAssigned(id, w) ==
    Put(assignedTo, w.id,
        (IF w.id \in DOMAIN assignedTo THEN assignedTo[w.id] ELSE {}) \cup {id})

\* Submit(warrant) -> DanceID, error.
Submit(w) ==
    /\ up
    /\ UNCHANGED cmdVars
    /\ IF ~ValidWarrant(w)
       THEN /\ submitRet' = [id |-> w.id, err |-> ErrInvalidWarrant,
                             dance |-> 0, queued |-> FALSE]
            /\ UNCHANGED <<poolVars, storeVars, probeVars, effectVars,
                           nextWarrant, saveFailed, crashes, fails>>
       ELSE /\ w.id = nextWarrant
            /\ nextWarrant' = nextWarrant + 1
            /\ peeked' = Put(peeked, w.id, {})
            /\ sessionUp' = Put(sessionUp, w.id, TRUE)
            /\ cancels' = Put(cancels, w.id, 0)
            /\ terminates' = Put(terminates, w.id, 0)
            /\ tracked' = tracked \cup {w.id}
            /\ IF PoolFull
               THEN /\ pending' = QueueWarrant(pending, w)
                    /\ submitRet' = [id |-> w.id, err |-> ErrNone,
                                     dance |-> 0, queued |-> TRUE]
                    /\ waited' = waited \cup {w.id}
                    /\ UNCHANGED <<active, nextDance, startLog, assignedTo>>
               ELSE /\ active' = Allocate(active, nextDance, w)
                    /\ nextDance' = nextDance + 1
                    /\ startLog' = Append(startLog, w.id)
                    /\ assignedTo' = NoteAssigned(nextDance, w)
                    /\ submitRet' = [id |-> w.id, err |-> ErrNone,
                                     dance |-> nextDance, queued |-> FALSE]
                    /\ UNCHANGED <<pending, waited>>
            /\ UNCHANGED <<up, capacity, finished, resumed, storeVars,
                           saveFailed, crashes, fails>>

\* Faulty variant of onDanceComplete: a Dance that failed gives its dog back
\* but the queue is not looked at.
onDanceCompleteFailedStalls(id) ==
    /\ up
    /\ id \in DOMAIN active
    /\ Terminal(active[id].state)
    /\ finished' = Put(finished, id, [warrant |-> active[id].warrant.id,
                                      state |-> active[id].state])
    /\ IF id \in DOMAIN storeActive
       THEN /\ storeCompleted' = Put(storeCompleted, id, storeActive[id])
            /\ storeActive' = Drop(storeActive, id)
       ELSE UNCHANGED storeVars
    /\ IF pending # <<>> /\ active[id].state # StateFailed
       THEN /\ active' = Allocate(Drop(active, id), nextDance, NextQueued(pending))
            /\ pending' = RestQueued(pending)
            /\ nextDance' = nextDance + 1
            /\ startLog' = Append(startLog, NextQueued(pending).id)
            /\ assignedTo' = NoteAssigned(nextDance, NextQueued(pending))
       ELSE /\ active' = Drop(active, id)
            /\ UNCHANGED <<pending, nextDance, startLog, assignedTo>>
    /\ UNCHANGED <<up, capacity, tracked, resumed, waited, probeVars, effectVars,
                   nextWarrant, saveFailed, submitRet, crashes, fails, cmdVars>>

\* onDanceComplete(dance): the Dance's Run has returned.
onDanceComplete(id) ==
    /\ up
    /\ id \in DOMAIN active
    /\ Terminal(active[id].state)
    /\ finished' = Put(finished, id, [warrant |-> active[id].warrant.id,
                                      state |-> active[id].state])
    \* PersistentTaskStore.Complete: move the record, a no-op when there is none
    /\ IF id \in DOMAIN storeActive
       THEN /\ storeCompleted' = Put(storeCompleted, id, storeActive[id])
            /\ storeActive' = Drop(storeActive, id)
       ELSE UNCHANGED storeVars
    /\ IF pending # <<>>
       THEN /\ active' = Allocate(Drop(active, id), nextDance, NextQueued(pending))
            /\ pending' = RestQueued(pending)
            /\ nextDance' = nextDance + 1
            /\ startLog' = Append(startLog, NextQueued(pending).id)
            /\ assignedTo' = NoteAssigned(nextDance, NextQueued(pending))
       ELSE /\ active' = Drop(active, id)
            /\ UNCHANGED <<pending, nextDance, startLog, assignedTo>>
    /\ UNCHANGED <<up, capacity, tracked, resumed, waited, probeVars, effectVars,
                   nextWarrant, saveFailed, submitRet, crashes, fails, cmdVars>>

\* DanceSummary: ID, Target, State, Attempt.
DanceSummary(id, d) ==
    [ID |-> id, Target |-> d.warrant.target, State |-> d.state,
     Attempt |-> d.attempt]

\* Faulty variant of Status: State and Attempt are read at two moments, so a
\* retry between them gives the new State with the Attempt from before it.
StatusTornRead(act, pend) ==
    [dances |-> {[ID |-> id, Target |-> act[id].warrant.target,
                  State |-> act[id].state,
                  Attempt |-> IF act[id].state = StateInterrogating
                                 /\ act[id].attempt > 1
                              THEN act[id].attempt - 1
                              ELSE act[id].attempt] : id \in DOMAIN act},
     pending |-> Len(pend)]

\* Status() -> []DanceSummary: a snapshot of every Active Dance and the count
\* of Pending warrants, taken under the pool's lock.
Status(act, pend) ==
    [dances |-> {DanceSummary(id, act[id]) : id \in DOMAIN act},
     pending |-> Len(pend)]

\* -------------------------------------------------------------- Dance
\* Idle --start--> Interrogating
Start(id, ok, okFailed) ==
    /\ up
    /\ id \in DOMAIN active
    /\ active[id].state = StateIdle
    /\ EndStep(id, [active[id] EXCEPT !.state = StateInterrogating], ok, okFailed)
    /\ UNCHANGED <<probeVars, effectVars>>

\* Interrogating --(send probe message, arm timer)--> Evaluating
\* reachable: whether SessionProbe.Send finds the target session.
Interrogate(id, reachable, ok, okFailed) ==
    /\ up
    /\ id \in DOMAIN active
    /\ active[id].state = StateInterrogating
    /\ LET d == active[id]
       IN /\ ProbeCan(d.warrant, reachable)
          /\ sessionUp' = [sessionUp EXCEPT ![d.warrant.id] = reachable]
          /\ IF reachable
             THEN EndStep(id, [d EXCEPT !.state = StateEvaluating,
                                      !.timeout = Timeout(d.attempt)],
                          ok, okFailed)
             ELSE EndStep(id, [d EXCEPT !.state = StateFailed], ok, okFailed)
    /\ UNCHANGED <<peeked, effectVars>>

\* Faulty variant of Evaluate: a session the probe cannot find counts as one
\* that did not answer.
EvaluateUnreachableAsSilent(id, reachable, alive, ok, okFailed) ==
    /\ up
    /\ id \in DOMAIN active
    /\ active[id].state = StateEvaluating
    /\ LET d == active[id]
           v == Verdict(alive /\ reachable, d.attempt)
       IN /\ ProbeCan(d.warrant, reachable)
          /\ sessionUp' = [sessionUp EXCEPT ![d.warrant.id] = reachable]
          /\ reachable \/ ~alive
          /\ peeked' = IF reachable
                       THEN [peeked EXCEPT ![d.warrant.id] =
                                @ \cup {<<d.attempt, alive>>}]
                       ELSE peeked
          /\ EndStep(id, [d EXCEPT !.state = v.state,
                                   !.attempt = v.attempt,
                                   !.timeout = 0], ok, okFailed)
    /\ UNCHANGED effectVars

\* Evaluating --> Pardoned | Interrogating (Attempt += 1) | Executing
\* reachable: whether SessionProbe.Peek finds the target session; alive:
\* whether the output it returns contains ALIVE.
Evaluate(id, reachable, alive, ok, okFailed) ==
    /\ up
    /\ id \in DOMAIN active
    /\ active[id].state = StateEvaluating
    /\ LET d == active[id]
           v == Verdict(alive, d.attempt)
       IN /\ ProbeCan(d.warrant, reachable)
          /\ sessionUp' = [sessionUp EXCEPT ![d.warrant.id] = reachable]
          /\ IF reachable
             THEN /\ peeked' = [peeked EXCEPT ![d.warrant.id] =
                                    @ \cup {<<d.attempt, alive>>}]
                  /\ EndStep(id, [d EXCEPT !.state = v.state,
                                           !.attempt = v.attempt,
                                           !.timeout = 0], ok, okFailed)
             ELSE /\ ~alive
                  /\ UNCHANGED peeked
                  /\ EndStep(id, [d EXCEPT !.state = StateFailed,
                                           !.timeout = 0], ok, okFailed)
    /\ UNCHANGED effectVars

\* Pardoned: cancel the warrant ...
Pardon(id) ==
    /\ up
    /\ id \in DOMAIN active
    /\ active[id].state = StatePardoned
    /\ ~active[id].acted
    /\ cancels' = [cancels EXCEPT ![active[id].warrant.id] = @ + 1]
    /\ active' = [active EXCEPT ![id].acted = TRUE]
    /\ UNCHANGED <<up, capacity, pending, storeVars, nextDance, nextWarrant,
                   probeVars, terminates, saveFailed, tracked, startLog,
                   assignedTo, finished, resumed, waited, submitRet, crashes,
                   fails, cmdVars>>

\* ... Executing: terminate the target session.  A Dance recovered in
\* Executing first asks the probe whether the session still exists.
Execute(id) ==
    /\ up
    /\ id \in DOMAIN active
    /\ active[id].state = StateExecuting
    /\ ~active[id].acted
    /\ LET d == active[id]
       IN /\ IF MustTerminate(d)
             THEN /\ terminates' = [terminates EXCEPT ![d.warrant.id] = @ + 1]
                  /\ sessionUp' = [sessionUp EXCEPT ![d.warrant.id] = FALSE]
             ELSE UNCHANGED <<terminates, sessionUp>>
          /\ active' = [active EXCEPT
                ![id].acted = TRUE,
                ![id].verified = IF ~d.recovered THEN ProbeNotAsked
                                 ELSE IF sessionUp[d.warrant.id] THEN ProbeExists
                                 ELSE ProbeGone]
    /\ UNCHANGED <<up, capacity, pending, storeVars, nextDance, nextWarrant,
                   peeked, cancels, saveFailed, tracked, startLog,
                   assignedTo, finished, resumed, waited, submitRet, crashes,
                   fails, cmdVars>>

\* Faulty variant of Finish: Complete is reached without the cancel or the
\* terminate having been done.
FinishUnacted(id, ok, okFailed) ==
    /\ up
    /\ id \in DOMAIN active
    /\ active[id].state \in {StatePardoned, StateExecuting}
    /\ EndStep(id, [active[id] EXCEPT !.state = StateComplete], ok, okFailed)
    /\ UNCHANGED <<probeVars, effectVars>>

\* Pardoned|Executing --persist--> Complete
Finish(id, ok, okFailed) ==
    /\ up
    /\ id \in DOMAIN active
    /\ active[id].state \in {StatePardoned, StateExecuting}
    /\ active[id].acted
    /\ EndStep(id, [active[id] EXCEPT !.state = StateComplete], ok, okFailed)
    /\ UNCHANGED <<probeVars, effectVars>>


\* ----------------------------------------------------- crash, Recover
\* The host process exits: every in-memory structure is gone, the store stays.
CrashWithin(limit) ==
    /\ up
    /\ crashes < limit
    /\ crashes' = crashes + 1
    /\ up' = FALSE
    /\ active' = EmptyMap
    /\ pending' = <<>>
    /\ tracked' = {}
    /\ startLog' = <<>>
    /\ waited' = {}
    /\ submitRet' = [id |-> Empty, err |-> ErrNone, dance |-> 0, queued |-> FALSE]
    /\ UNCHANGED <<capacity, storeVars, nextDance, nextWarrant, probeVars,
                   effectVars, saveFailed, assignedTo, finished, resumed, fails,
                   cmdVars>>

\* The crashes of the process lifetimes under study.
Crash == CrashWithin(MaxCrashes)

\* Faulty variant of Resume: the recovered Dance starts over at attempt 1.
ResumeFromFirstAttempt(rec) ==
    [warrant |-> rec.warrant,
     state |-> IF rec.state = StateEvaluating THEN StateInterrogating
               ELSE rec.state,
     attempt |-> 1, acted |-> FALSE, recovered |-> TRUE,
     timeout |-> 0, verified |-> ProbeNotAsked]

\* Faulty variant of Resume: a Dance that had failed is tried again.
ResumeRetriesFailed(rec) ==
    [warrant |-> rec.warrant,
     state |-> IF rec.state \in {StateEvaluating, StateFailed}
               THEN StateInterrogating ELSE rec.state,
     attempt |-> rec.attempt, acted |-> FALSE, recovered |-> TRUE,
     timeout |-> 0, verified |-> ProbeNotAsked]

\* Dog.Resume: the Dance a loaded record restarts as.  Interrogating and
\* Evaluating restart at the persisted Attempt with a fresh probe send.
Resume(rec) ==
    [warrant |-> rec.warrant,
     state |-> IF rec.state = StateEvaluating THEN StateInterrogating
               ELSE rec.state,
     attempt |-> rec.attempt, acted |-> FALSE, recovered |-> TRUE,
     timeout |-> 0, verified |-> ProbeNotAsked]

\* Faulty variant of Recover: the orphans beyond Capacity are not queued.
RecoverDropsExcess ==
    /\ ~up
    /\ LET ids == SortedSeq(DOMAIN storeActive)
           orphans == SelectSeq(ids, LAMBDA id : NeedsRecovery(storeActive[id]))
           done == {id \in DOMAIN storeActive : ~NeedsRecovery(storeActive[id])}
           n == Min(capacity, Len(orphans))
           admitted == {orphans[i] : i \in 1..n}
       IN /\ active' = [id \in admitted |-> Resume(storeActive[id])]
          /\ pending' = <<>>
          /\ storeActive' = [id \in DOMAIN storeActive \ done |-> storeActive[id]]
          /\ storeCompleted' =
                [id \in DOMAIN storeCompleted \cup done |->
                    IF id \in done THEN storeActive[id] ELSE storeCompleted[id]]
          /\ tracked' = {storeActive[id].warrant.id : id \in DOMAIN storeActive}
          /\ resumed' = resumed \cup admitted
    /\ up' = TRUE
    /\ UNCHANGED <<capacity, nextDance, nextWarrant, probeVars, effectVars,
                   saveFailed, startLog, assignedTo, finished, waited,
                   submitRet, crashes, fails, cmdVars>>

\* Recover(): load the active partition; resolved records move to the completed
\* partition, the others are re-admitted up to Capacity, the excess is queued.
Recover ==
    /\ ~up
    /\ LET ids == SortedSeq(DOMAIN storeActive)
           orphans == SelectSeq(ids, LAMBDA id : NeedsRecovery(storeActive[id]))
           done == {id \in DOMAIN storeActive : ~NeedsRecovery(storeActive[id])}
           n == Min(capacity, Len(orphans))
           admitted == {orphans[i] : i \in 1..n}
       IN /\ active' = [id \in admitted |-> Resume(storeActive[id])]
          /\ pending' = [i \in 1..(Len(orphans) - n) |->
                            storeActive[orphans[n + i]].warrant]
          /\ storeActive' = [id \in DOMAIN storeActive \ done |-> storeActive[id]]
          /\ storeCompleted' =
                [id \in DOMAIN storeCompleted \cup done |->
                    IF id \in done THEN storeActive[id] ELSE storeCompleted[id]]
          /\ tracked' = {storeActive[id].warrant.id : id \in DOMAIN storeActive}
          /\ resumed' = resumed \cup admitted
    /\ up' = TRUE
    /\ UNCHANGED <<capacity, nextDance, nextWarrant, probeVars, effectVars,
                   saveFailed, startLog, assignedTo, finished, waited,
                   submitRet, crashes, fails, cmdVars>>


\* --------------------------------------------------------------- Init
\* The pool as constructed with the given capacity over an empty store.
NewPool(size) ==
    /\ up = TRUE
    /\ capacity = size
    /\ active = EmptyMap
    /\ pending = <<>>
    /\ storeActive = EmptyMap
    /\ storeCompleted = EmptyMap
    /\ nextDance = 1
    /\ nextWarrant = 1
    /\ peeked = EmptyMap
    /\ sessionUp = EmptyMap
    /\ cancels = EmptyMap
    /\ terminates = EmptyMap
    /\ saveFailed = {}
    /\ tracked = {}
    /\ startLog = <<>>
    /\ assignedTo = EmptyMap
    /\ finished = EmptyMap
    /\ resumed = {}
    /\ waited = {}
    /\ submitRet = [id |-> Empty, err |-> ErrNone, dance |-> 0, queued |-> FALSE]
    /\ crashes = 0
    /\ fails = 0

\* No gt command has run: no beads, an empty repository, no configuration.
NoCommand == [cmd |-> "none"]

NoRig ==
    /\ beadsDB = EmptyMap
    /\ gitRepo = EmptyMap
    /\ rigCfg = EmptyMap
    /\ cmdIn = NoCommand
    /\ cmdOut = NoCommand

Init == \E size \in 1..MaxCapacity : NewPool(size) /\ NoRig

\* --------------------------------------------------------------- Next
\* What the driver may hand to Submit: the next warrant, well formed or with
\* its ID or Target empty.
Submissions ==
    {Warrant(nextWarrant, nextWarrant), Warrant(Empty, nextWarrant),
     Warrant(nextWarrant, Empty)}

\* The driver files at most limit warrants.
Drive(limit) == \E w \in Submissions : nextWarrant <= limit /\ Submit(w)

\* One step of the goroutine running Dance id; oks are the outcomes the store
\* may give a write, finds whether the probe may find the session, lives what
\* its output may show.
RunStep(id, oks, finds, lives) ==
    \/ \E ok \in oks, okFailed \in oks : Start(id, ok, okFailed)
    \/ \E reachable \in finds, ok \in oks, okFailed \in oks :
          Interrogate(id, reachable, ok, okFailed)
    \/ \E reachable \in finds, alive \in lives, ok \in oks, okFailed \in oks :
          Evaluate(id, reachable, alive, ok, okFailed)
    \/ Pardon(id)
    \/ Execute(id)
    \/ \E ok \in oks, okFailed \in oks : Finish(id, ok, okFailed)

\* Everything: store writes may fail, the process may crash and restart.
Next ==
    \/ Drive(MaxWarrants)
    \/ \E id \in DOMAIN active : RunStep(id, BOOLEAN, BOOLEAN, BOOLEAN)
    \/ \E id \in DOMAIN active : onDanceComplete(id)
    \/ Crash
    \/ Recover

Spec == Init /\ [][Next]_vars

\* One process lifetime in which the goroutines keep running: store writes may
\* fail, there is no crash.
Running(oks) ==
    \E id \in DOMAIN active : RunStep(id, oks, BOOLEAN, BOOLEAN) \/ onDanceComplete(id)

NextFair == Drive(MaxWarrants) \/ Running(BOOLEAN)

FairSpec == Init /\ [][NextFair]_vars /\ WF_vars(Running(BOOLEAN))

\* The same with a store that never fails.
NextLive == Drive(MaxWarrants) \/ Running({TRUE})

LiveSpec == Init /\ [][NextLive]_vars /\ WF_vars(Running({TRUE}))

\* The Driver polls the pool while Dances run: a Status call between any two
\* steps of the goroutines, its answer kept as the Driver's last view.
PollStatus ==
    /\ up
    /\ IF cmdOut.cmd = "none" THEN TRUE ELSE cmdOut.calls < MaxStatusCalls
    /\ cmdOut' = [cmd |-> "status",
                  calls |-> IF cmdOut.cmd = "none" THEN 1 ELSE cmdOut.calls + 1,
                  status |-> Status(active, pending)]
    /\ UNCHANGED <<dogVars, beadsDB, gitRepo, rigCfg, cmdIn>>

NextStatus == Drive(StatusWarrants) \/ Running(BOOLEAN) \/ PollStatus

StatusSpec == Init /\ [][NextStatus]_vars

\* Process lifetimes with a store that never fails: the process may crash, and
\* Boot restarts it, which recovers the orphans.
NextCrash == Drive(MaxWarrants) \/ Running({TRUE}) \/ Crash \/ Recover

CrashSpec ==
    Init /\ [][NextCrash]_vars /\ WF_vars(Running({TRUE})) /\ WF_vars(Recover)

\* One warrant's Dance through repeated crashes: the store never fails, the
\* process crashes up to MaxRecrashes times and Boot restarts it each time.
NextRecrash ==
    \/ Drive(RecrashWarrants)
    \/ Running({TRUE})
    \/ CrashWithin(MaxRecrashes)
    \/ Recover

RecrashSpec ==
    Init /\ [][NextRecrash]_vars /\ WF_vars(Running({TRUE})) /\ WF_vars(Recover)

\* Boot starts over the state files an earlier process left behind, which may
\* have run a larger pool: up to MaxLeftBehind records, Dance i for warrant i,
\* in any state a state file can show.  A Complete record is one of a
\* pardoned Dance, its cancel done.
LeftBehindShapes ==
    {[state |-> st, attempt |-> a] :
        st \in {StateInterrogating, StateEvaluating}, a \in 1..MaxAttempts}
    \cup {[state |-> st, attempt |-> 1] :
            st \in {StatePardoned, StateComplete, StateFailed}}
    \cup {[state |-> StateExecuting, attempt |-> MaxAttempts]}

BootInit ==
    \E size \in 1..MaxCapacity, n \in 0..MaxLeftBehind :
      \E shape \in [1..n -> LeftBehindShapes] :
        /\ up = FALSE
        /\ capacity = size
        /\ active = EmptyMap
        /\ pending = <<>>
        /\ storeActive = [i \in 1..n |->
                             [warrant |-> Warrant(i, i), state |-> shape[i].state,
                              attempt |-> shape[i].attempt]]
        /\ storeCompleted = EmptyMap
        /\ nextDance = n + 1
        /\ nextWarrant = n + 1
        /\ peeked = [i \in 1..n |-> {}]
        /\ sessionUp = [i \in 1..n |-> TRUE]
        /\ cancels = [i \in 1..n |->
                         IF shape[i].state = StateComplete THEN 1 ELSE 0]
        /\ terminates = [i \in 1..n |-> 0]
        /\ saveFailed = {}
        /\ tracked = {}
        /\ startLog = <<>>
        /\ assignedTo = [i \in 1..n |-> {i}]
        /\ finished = EmptyMap
        /\ resumed = {}
        /\ waited = {}
        /\ submitRet = [id |-> Empty, err |-> ErrNone, dance |-> 0,
                        queued |-> FALSE]
        /\ crashes = 0
        /\ fails = 0
        /\ NoRig

\* Recover first, then the recovered Dances run; the store never fails.
NextBoot ==
    \/ Recover
    \/ Running({TRUE})

BootSpec == BootInit /\ [][NextBoot]_vars

\* The pool at its default size, two warrants more than it has dogs, every
\* target answering ALIVE to its first health check.
InitScenario == NewPool(DefaultPoolSize) /\ NoRig

ScenarioWarrants == DefaultPoolSize + 2

NextScenario ==
    \/ Submit(Warrant(nextWarrant, nextWarrant)) /\ nextWarrant <= ScenarioWarrants
    \/ \E id \in DOMAIN active : RunStep(id, {TRUE}, {TRUE}, {TRUE}) \/ onDanceComplete(id)

ScenarioSpec == InitScenario /\ [][NextScenario]_vars

\* ============================================== gt commands: data model
\* A branch name is the sequence of its path segments: main is <<"main">>,
\* integration/gt-gp is <<"integration", "gt-gp">>.  The empty name is <<>>.
NoBranch == <<>>
Main == <<"main">>
Master == <<"master">>
Develop == <<"develop">>

\* "integration/" + id
IntegrationBranch(id) == <<"integration", id>>

\* The empty string of a flag or a bead field.
NoID == ""

TypeTask == "task"
TypeEpic == "epic"
TypeMergeRequest == "merge-request"

\* beads.Issue, the fields the commands read and write.
Bead(type, parent, priority, description) ==
    [Type |-> type, Parent |-> parent, Priority |-> priority,
     Description |-> description]

\* The ID bd.Create gives a new bead.
FreshIDs == {"gt-new1", "gt-new2"}
NewBeadID(db) == CHOOSE id \in FreshIDs : id \notin DOMAIN db

\* Segments that are an issue ID, as issuePattern matches them:
\* [a-z]+-[a-z0-9]+(\.[0-9]+)?
IssueShaped == {"gt-task", "gt-sub", "gt-gp", "gt-gone"}

\* ======================================================== gt mq submit
\* parseBranchName: polecat/<worker>/<issue>, or the first issue ID found in
\* the name.
parseBranchName(branch) ==
    IF Len(branch) >= 3 /\ branch[1] = "polecat"
    THEN [Branch |-> branch, Issue |-> branch[3], Worker |-> branch[2]]
    ELSE LET hits == SelectSeq(branch, LAMBDA seg : seg \in IssueShaped)
         IN [Branch |-> branch,
             Issue |-> IF hits # <<>> THEN hits[1] ELSE NoID,
             Worker |-> NoID]

\* detectIntegrationBranch: the integration branch of the issue's parent epic,
\* NoBranch when there is none; err when a lookup failed.  localErr and
\* remoteErr: g.BranchExists and g.RemoteBranchExists return an error.
detectIntegrationBranch(db, repo, issueID, localErr, remoteErr) ==
    IF issueID \notin DOMAIN db
    THEN [target |-> NoBranch, err |-> "looking up issue"]
    ELSE IF db[issueID].Parent = NoID
    THEN [target |-> NoBranch, err |-> ""]
    ELSE IF db[issueID].Parent \notin DOMAIN db
    THEN [target |-> NoBranch, err |-> "looking up parent"]
    ELSE IF db[db[issueID].Parent].Type # TypeEpic
    THEN [target |-> NoBranch, err |-> ""]
    ELSE LET integrationBranch == IntegrationBranch(db[issueID].Parent)
         IN IF localErr
            THEN [target |-> NoBranch, err |-> "checking local branch"]
            ELSE IF integrationBranch \in repo.local
            THEN [target |-> integrationBranch, err |-> ""]
            ELSE IF remoteErr
            THEN [target |-> NoBranch, err |-> ""]
            ELSE IF integrationBranch \in repo.remote
            THEN [target |-> integrationBranch, err |-> ""]
            ELSE [target |-> NoBranch, err |-> ""]

\* The priority a merge request gets when neither the flag nor the source
\* issue gives one.
DefaultPriority == 2

RefusedBranchMainOnly(branch) == branch = Main

\* The branches that are never submitted.
RefusedBranch(branch) == branch = Main \/ branch = Master

mqTargetDetectionFirst(db, repo, in, issueID) ==
    LET auto == detectIntegrationBranch(db, repo, issueID,
                                        in.localErr, in.remoteErr)
    IN IF auto.err = "" /\ auto.target # NoBranch
       THEN [target |-> auto.target, detectRan |-> TRUE, note |-> ""]
       ELSE IF in.Epic # NoID
       THEN [target |-> IntegrationBranch(in.Epic), detectRan |-> TRUE,
             note |-> auto.err]
       ELSE [target |-> Main, detectRan |-> TRUE, note |-> auto.err]

\* "Determine target branch": the target of the merge request, whether
\* detection ran, and the note printed when it failed.
mqTarget(db, repo, in, issueID) ==
    IF in.Epic # NoID
    THEN [target |-> IntegrationBranch(in.Epic), detectRan |-> FALSE,
          note |-> ""]
    ELSE LET auto == detectIntegrationBranch(db, repo, issueID,
                                             in.localErr, in.remoteErr)
         IN IF auto.err # ""
            THEN [target |-> Main, detectRan |-> TRUE, note |-> auto.err]
            ELSE IF auto.target # NoBranch
            THEN [target |-> auto.target, detectRan |-> TRUE, note |-> ""]
            ELSE [target |-> Main, detectRan |-> TRUE, note |-> ""]

\* The priority of the merge request: the flag, else the source issue's, else
\* the default.
mqPriority(db, in, issueID) ==
    IF in.Priority >= 0 THEN in.Priority
    ELSE IF issueID \notin DOMAIN db THEN DefaultPriority
    ELSE db[issueID].Priority

\* What a command that failed reports.
Failed(name, err) ==
    [cmd |-> name, err |-> err, mr |-> NoID, target |-> NoBranch,
     detectRan |-> FALSE, note |-> ""]

CmdMqSubmit == "mq submit"

\* runMqSubmit with the flags and the environment of `in`.
runMqSubmit(in) ==
    LET branch == IF in.Branch = NoBranch THEN in.Current ELSE in.Branch
        info == parseBranchName(branch)
        issueID == IF in.Issue = NoID THEN info.Issue ELSE in.Issue
        chosen == mqTarget(beadsDB, gitRepo, in, issueID)
        id == NewBeadID(beadsDB)
        mr == Bead(TypeMergeRequest, NoID, mqPriority(beadsDB, in, issueID),
                   [branch |-> branch, target |-> chosen.target,
                    source_issue |-> issueID, worker |-> info.Worker,
                    rig |-> in.rig])
    IN /\ cmdIn = NoCommand
       /\ cmdIn' = in
       /\ IF in.rig = NoID
          THEN /\ cmdOut' = Failed(CmdMqSubmit, "not in a rig")
               /\ UNCHANGED beadsDB
          ELSE IF RefusedBranch(branch)
          THEN /\ cmdOut' = Failed(CmdMqSubmit, "cannot submit main/master branch to merge queue")
               /\ UNCHANGED beadsDB
          ELSE IF issueID = NoID
          THEN /\ cmdOut' = Failed(CmdMqSubmit, "cannot determine source issue")
               /\ UNCHANGED beadsDB
          ELSE IF in.createErr
          THEN /\ cmdOut' = [Failed(CmdMqSubmit, "creating merge request")
                               EXCEPT !.target = chosen.target,
                                      !.detectRan = chosen.detectRan,
                                      !.note = chosen.note]
               /\ UNCHANGED beadsDB
          ELSE /\ cmdOut' = [cmd |-> CmdMqSubmit, err |-> "", mr |-> id,
                             target |-> chosen.target,
                             detectRan |-> chosen.detectRan,
                             note |-> chosen.note]
               /\ beadsDB' = Put(beadsDB, id, mr)
       /\ UNCHANGED <<gitRepo, rigCfg, dogVars>>

\* ------------------------------------------------- the rig of the commands
\* A task gt-task under the sub-epic gt-sub under the epic gt-gp; gt-gone is
\* the ID of no bead.
NoFields == [integration_branch |-> NoBranch]

RigBeads(taskParent, subType) ==
    [id \in {"gt-task", "gt-sub", "gt-gp"} |->
        CASE id = "gt-task" -> Bead(TypeTask, taskParent, 1, NoFields)
          [] id = "gt-sub"  -> Bead(subType, "gt-gp", 1, NoFields)
          [] id = "gt-gp"   -> Bead(TypeEpic, NoID, 1, NoFields)]

EpicBranches == {IntegrationBranch("gt-sub"), IntegrationBranch("gt-gp")}

\* The pool the commands run beside: it is idle throughout.
IdlePool == NewPool(1)

MqInit ==
    /\ IdlePool
    /\ \E taskParent \in {NoID, "gt-sub", "gt-gone"},
          subType \in {TypeTask, TypeEpic},
          local \in SUBSET EpicBranches, remote \in SUBSET EpicBranches,
          default \in {Main, Develop} :
            /\ beadsDB = RigBeads(taskParent, subType)
            /\ gitRepo = [local |-> local, remote |-> remote]
            /\ rigCfg = [default_branch |-> default]
    /\ cmdIn = NoCommand
    /\ cmdOut = NoCommand

PolecatBranch == <<"polecat", "nux", "gt-task">>

\* The flags and faults of one gt mq submit.
MqInputs ==
    [cmd : {CmdMqSubmit},
     rig : {NoID, "gastown"},
     Branch : {NoBranch, Master, <<"feature">>, PolecatBranch},
     Current : {Main, <<"fix", "gt-task">>},
     Issue : {NoID, "gt-task", "gt-gone"},
     Epic : {NoID, "gt-gp"},
     Priority : {-1, 3},
     localErr : BOOLEAN, remoteErr : BOOLEAN, createErr : BOOLEAN]

MqNext == \E in \in MqInputs : runMqSubmit(in)

MqSpec == MqInit /\ [][MqNext]_vars

\* ======================================================= gt epic create
CmdEpicCreate == "epic create"

\* beads.GetIntegrationBranchField
GetIntegrationBranchField(description) == description.integration_branch

\* beads.SanitizeTitleForBranch on the titles used here: kebab case, and
\* nothing left of a title without letters or digits.
SanitizeTitleForBranch(title) ==
    CASE title = "User Authentication" -> "user-authentication"
      [] title = "!!!" -> ""

\* Faulty variant of resolveBaseBranch: the parent epic's integration branch
\* is looked at before the --base-branch flag.
resolveBaseBranchParentFirst(db, cfg, in) ==
    IF /\ in.Parent \in DOMAIN db
       /\ ~in.NoIntegrationBranch
       /\ db[in.Parent].Type = TypeEpic
       /\ GetIntegrationBranchField(db[in.Parent].Description) # NoBranch
    THEN [base |-> GetIntegrationBranchField(db[in.Parent].Description),
          err |-> ""]
    ELSE IF in.BaseBranch # NoBranch THEN [base |-> in.BaseBranch, err |-> ""]
    ELSE IF in.Parent # NoID /\ ~in.NoIntegrationBranch
    THEN IF in.Parent \notin DOMAIN db
         THEN [base |-> NoBranch, err |-> "looking up parent"]
         ELSE IF db[in.Parent].Type = TypeEpic
         THEN [base |-> NoBranch, err |-> "parent epic has no integration branch"]
         ELSE [base |-> cfg.default_branch, err |-> ""]
    ELSE [base |-> cfg.default_branch, err |-> ""]

resolveBaseBranchFallsBack(db, cfg, in) ==
    IF in.BaseBranch # NoBranch THEN [base |-> in.BaseBranch, err |-> ""]
    ELSE IF in.Parent # NoID /\ ~in.NoIntegrationBranch
    THEN IF in.Parent \notin DOMAIN db
         THEN [base |-> NoBranch, err |-> "looking up parent"]
         ELSE IF /\ db[in.Parent].Type = TypeEpic
                 /\ GetIntegrationBranchField(db[in.Parent].Description) # NoBranch
         THEN [base |-> GetIntegrationBranchField(db[in.Parent].Description),
               err |-> ""]
         ELSE [base |-> cfg.default_branch, err |-> ""]
    ELSE [base |-> cfg.default_branch, err |-> ""]

\* "Resolve base branch for the integration branch": --base-branch, else the
\* parent epic's integration branch, else the rig's default branch.
resolveBaseBranch(db, cfg, in) ==
    IF in.BaseBranch # NoBranch THEN [base |-> in.BaseBranch, err |-> ""]
    ELSE IF in.Parent # NoID /\ ~in.NoIntegrationBranch
    THEN IF in.Parent \notin DOMAIN db
         THEN [base |-> NoBranch, err |-> "looking up parent"]
         ELSE IF db[in.Parent].Type = TypeEpic
         THEN IF GetIntegrationBranchField(db[in.Parent].Description) = NoBranch
              THEN [base |-> NoBranch,
                    err |-> "parent epic has no integration branch"]
              ELSE [base |-> GetIntegrationBranchField(db[in.Parent].Description),
                    err |-> ""]
         ELSE [base |-> cfg.default_branch, err |-> ""]
    ELSE [base |-> cfg.default_branch, err |-> ""]

\* What gt epic create reports.
EpicResult(err, epic, branch, base) ==
    [cmd |-> CmdEpicCreate, err |-> err, epic |-> epic, branch |-> branch,
     base |-> base]

\* runEpicCreate with the flags and the environment of `in`.
runEpicCreate(in) ==
    LET resolved == resolveBaseBranch(beadsDB, rigCfg, in)
        id == NewBeadID(beadsDB)
        epic == [Type |-> TypeEpic, Parent |-> in.Parent,
                 Priority |-> in.Priority, Description |-> NoFields,
                 Labels |-> IF in.updateErr THEN {} ELSE in.Labels]
        slug == SanitizeTitleForBranch(in.Title)
        branchName == <<"integration", slug>>
    IN /\ cmdIn = NoCommand
       /\ cmdIn' = in
       /\ UNCHANGED <<rigCfg, dogVars>>
       /\ IF in.rig = NoID
          THEN /\ cmdOut' = EpicResult("could not determine rig", NoID,
                                       NoBranch, NoBranch)
               /\ UNCHANGED <<beadsDB, gitRepo>>
          ELSE IF ~rigCfg.integration_branch_enabled
          THEN /\ cmdOut' = EpicResult("integration branches are not enabled for this rig",
                                       NoID, NoBranch, NoBranch)
               /\ UNCHANGED <<beadsDB, gitRepo>>
          ELSE IF resolved.err # ""
          THEN /\ cmdOut' = EpicResult(resolved.err, NoID, NoBranch, NoBranch)
               /\ UNCHANGED <<beadsDB, gitRepo>>
          ELSE IF in.createErr
          THEN /\ cmdOut' = EpicResult("creating epic", NoID, NoBranch,
                                       resolved.base)
               /\ UNCHANGED <<beadsDB, gitRepo>>
          ELSE IF in.NoIntegrationBranch \/ slug = ""
          THEN /\ cmdOut' = EpicResult("", id, NoBranch, resolved.base)
               /\ beadsDB' = Put(beadsDB, id, epic)
               /\ UNCHANGED gitRepo
          ELSE IF in.branchErr
          THEN /\ cmdOut' = EpicResult("creating integration branch", id,
                                       NoBranch, resolved.base)
               /\ beadsDB' = Put(beadsDB, id, epic)
               /\ UNCHANGED gitRepo
          ELSE /\ cmdOut' = EpicResult("", id, branchName, resolved.base)
               /\ beadsDB' = Put(beadsDB, id,
                     [epic EXCEPT !.Description =
                         [integration_branch |-> branchName,
                          base_branch |-> resolved.base]])
               /\ gitRepo' = [local |-> gitRepo.local \cup {branchName},
                              remote |-> gitRepo.remote \cup {branchName}]

\* gt-gp with its integration branch recorded, or without.
EpicBeads(gpBranch) ==
    [RigBeads("gt-sub", TypeEpic) EXCEPT
        !["gt-gp"].Description = [integration_branch |-> gpBranch]]

EpicInit ==
    /\ IdlePool
    /\ \E gpBranch \in {NoBranch, IntegrationBranch("gt-gp")},
          enabled \in BOOLEAN, default \in {Main, Develop} :
            /\ beadsDB = EpicBeads(gpBranch)
            /\ gitRepo = [local |-> {Main, Develop} \cup ({gpBranch} \ {NoBranch}),
                          remote |-> {Main, Develop} \cup ({gpBranch} \ {NoBranch})]
            /\ rigCfg = [default_branch |-> default,
                         integration_branch_enabled |-> enabled]
    /\ cmdIn = NoCommand
    /\ cmdOut = NoCommand

\* The flags and faults of one gt epic create.
EpicInputs ==
    [cmd : {CmdEpicCreate},
     rig : {NoID, "gastown"},
     Title : {"User Authentication", "!!!"},
     Parent : {NoID, "gt-gp", "gt-task", "gt-gone"},
     BaseBranch : {NoBranch, Develop},
     NoIntegrationBranch : BOOLEAN,
     Priority : {0, 1},
     Labels : {{}, {"urgent"}},
     createErr : BOOLEAN, updateErr : BOOLEAN, branchErr : BOOLEAN]

EpicNext == \E in \in EpicInputs : runEpicCreate(in)

EpicSpec == EpicInit /\ [][EpicNext]_vars

\* ================================================= git: commits and refs
\* A repository is [commits, heads, origin, remotes]: commits is the sequence
\* of commits made (a commit's ID is its index), heads maps local branches
\* and origin maps origin's branches, as last seen, to commit IDs, and
\* remotes is the set of remote names.
MaxCommits == 4

\* ZERO_SHA: the hash git hands to the hook for a ref that does not exist.
ZERO_SHA == 0

\* A commit: its parents in order, the branch it was made on and the files it
\* changes.
Commit(parents, on, files) == [parents |-> parents, on |-> on, files |-> files]

Range(seq) == {seq[i] : i \in DOMAIN seq}

RECURSIVE Ancestors(_, _)
\* The commits reachable from sha, sha included.
Ancestors(commits, sha) ==
    IF sha = ZERO_SHA THEN {}
    ELSE {sha} \cup UNION {Ancestors(commits, p) : p \in Range(commits[sha].parents)}

\* The repository the hook tests start from: one commit on main, pushed.
FreshClone(remotes) ==
    [commits |-> <<Commit(<<>>, Main, {"f"})>>,
     heads |-> [b \in {Main} |-> 1],
     origin |-> [b \in {Main} |-> 1],
     remotes |-> remotes]

\* ================================================ .githooks/pre-push
IntegrationEpic == <<"integration", "epic">>
BugfixStuff == <<"bugfix", "stuff">>
PolecatWork == <<"polecat", "work">>
TagRef == <<"refs", "tags", "v1.0">>

HeadRef(branch) == <<"refs", "heads">> \o branch

\* The line git writes to the hook's standard input, and the environment.
PushLine(localRef, lsha, remoteRef, rsha, land) ==
    [cmd |-> "pre-push", localRef |-> localRef, lsha |-> lsha,
     remoteRef |-> remoteRef, rsha |-> rsha, GT_INTEGRATION_LAND |-> land]

\* origin/integration/* as the clone knows them.
IntegrationRefs(repo) ==
    {b \in DOMAIN repo.origin : Len(b) >= 2 /\ b[1] = "integration"}

\* The commits a push of lsha over rsha adds to the remote ref.
NewCommits(repo, lsha, rsha) ==
    Ancestors(repo.commits, lsha) \ Ancestors(repo.commits, rsha)

\* Ancestry detection: some commit the push adds is part of an
\* origin/integration/* branch.
ContainsIntegration(repo, lsha, rsha) ==
    \E b \in IntegrationRefs(repo) :
        NewCommits(repo, lsha, rsha)
            \cap Ancestors(repo.commits, repo.origin[b]) # {}

prePushIgnoresLand(repo, line) ==
    IF SubSeq(line.remoteRef, 1, 2) # <<"refs", "heads">> THEN 0
    ELSE LET branch == SubSeq(line.remoteRef, 3, Len(line.remoteRef))
         IN IF branch = Main
            THEN IF ContainsIntegration(repo, line.lsha, line.rsha)
                 THEN 1 ELSE 0
            ELSE IF Len(branch) >= 2 /\ branch[1] \in {"polecat", "integration"}
            THEN 0
            ELSE IF "upstream" \in repo.remotes THEN 0 ELSE 1

prePushNoUpstreamCheck(repo, line) ==
    IF SubSeq(line.remoteRef, 1, 2) # <<"refs", "heads">> THEN 0
    ELSE LET branch == SubSeq(line.remoteRef, 3, Len(line.remoteRef))
         IN IF branch = Main
            THEN IF /\ ContainsIntegration(repo, line.lsha, line.rsha)
                    /\ ~line.GT_INTEGRATION_LAND
                 THEN 1 ELSE 0
            ELSE IF Len(branch) >= 2 /\ branch[1] \in {"polecat", "integration"}
            THEN 0
            ELSE 1

\* The hook's exit status for one pushed ref.
prePush(repo, line) ==
    IF SubSeq(line.remoteRef, 1, 2) # <<"refs", "heads">> THEN 0
    ELSE LET branch == SubSeq(line.remoteRef, 3, Len(line.remoteRef))
         IN IF branch = Main
            THEN IF /\ ContainsIntegration(repo, line.lsha, line.rsha)
                    /\ ~line.GT_INTEGRATION_LAND
                 THEN 1 ELSE 0
            ELSE IF Len(branch) >= 2 /\ branch[1] \in {"polecat", "integration"}
            THEN 0
            ELSE IF "upstream" \in repo.remotes THEN 0 ELSE 1

HookUnchanged == UNCHANGED <<beadsDB, rigCfg, dogVars>>

\* git checkout -b b, from main.
gitCheckoutNew(b) ==
    /\ b \notin DOMAIN gitRepo.heads
    /\ gitRepo' = [gitRepo EXCEPT !.heads = Put(@, b, gitRepo.heads[Main])]
    /\ UNCHANGED <<cmdIn, cmdOut>>
    /\ HookUnchanged

\* git commit on branch b.
gitCommit(b) ==
    /\ b \in DOMAIN gitRepo.heads
    /\ Len(gitRepo.commits) < MaxCommits
    /\ gitRepo' = [gitRepo EXCEPT
          !.commits = Append(@, Commit(<<gitRepo.heads[b]>>, b, {"f"})),
          !.heads = Put(@, b, Len(gitRepo.commits) + 1)]
    /\ UNCHANGED <<cmdIn, cmdOut>>
    /\ HookUnchanged

\* git merge --no-ff origin/b, on main.
gitMergeNoFF(b) ==
    /\ b \in DOMAIN gitRepo.origin \ {Main}
    /\ gitRepo.origin[b] \notin Ancestors(gitRepo.commits, gitRepo.heads[Main])
    /\ Len(gitRepo.commits) < MaxCommits
    /\ gitRepo' = [gitRepo EXCEPT
          !.commits = Append(@, Commit(<<gitRepo.heads[Main], gitRepo.origin[b]>>,
                                       Main, {})),
          !.heads = Put(@, Main, Len(gitRepo.commits) + 1)]
    /\ UNCHANGED <<cmdIn, cmdOut>>
    /\ HookUnchanged

\* git push origin b: the hook runs, and the push goes through when it
\* exits 0.
gitPush(b, land) ==
    LET rsha == IF b \in DOMAIN gitRepo.origin THEN gitRepo.origin[b]
                ELSE ZERO_SHA
        line == PushLine(HeadRef(b), gitRepo.heads[b], HeadRef(b), rsha, land)
        exit == prePush(gitRepo, line)
    IN /\ b \in DOMAIN gitRepo.heads
       /\ cmdIn' = line
       /\ cmdOut' = [cmd |-> "pre-push", exit |-> exit]
       /\ gitRepo' = IF exit = 0
                     THEN [gitRepo EXCEPT !.origin = Put(@, b, gitRepo.heads[b])]
                     ELSE gitRepo
       /\ HookUnchanged

\* git push origin v1.0: a tag on main's head.
gitPushTag(land) ==
    LET line == PushLine(TagRef, gitRepo.heads[Main], TagRef, ZERO_SHA, land)
    IN /\ cmdIn' = line
       /\ cmdOut' = [cmd |-> "pre-push", exit |-> prePush(gitRepo, line)]
       /\ UNCHANGED gitRepo
       /\ HookUnchanged

HookBranches == {IntegrationEpic, BugfixStuff, PolecatWork}

HookInit ==
    /\ IdlePool
    /\ beadsDB = EmptyMap
    /\ rigCfg = [default_branch |-> Main]
    /\ \E remotes \in {{"origin"}, {"origin", "upstream"}} :
          gitRepo = FreshClone(remotes)
    /\ cmdIn = NoCommand
    /\ cmdOut = NoCommand

HookNext ==
    \/ \E b \in HookBranches : gitCheckoutNew(b)
    \/ \E b \in HookBranches \cup {Main} : gitCommit(b)
    \/ \E b \in HookBranches : gitMergeNoFF(b)
    \/ \E b \in HookBranches \cup {Main}, land \in BOOLEAN : gitPush(b, land)
    \/ \E land \in BOOLEAN : gitPushTag(land)

HookSpec == HookInit /\ [][HookNext]_vars

\* =========================================== refinery: Engineer.doMerge
StrategyRebaseFF == "rebase-ff"
StrategySquash == "squash"

FeatureTest == <<"feature", "test">>
Nonexistent == <<"nonexistent", "branch">>
IntegrationL0g1x == <<"integration", "l0g1x">>

\* The files the branches write.
MergeFiles == {"safe.go", "clash.txt"}

\* ProcessResult
ProcessResult(success, conflict, testsFailed, error, mergeCommit, replayed) ==
    [cmd |-> "doMerge", Success |-> success, Conflict |-> conflict,
     TestsFailed |-> testsFailed, Error |-> error,
     MergeCommit |-> mergeCommit, replayed |-> replayed]

\* The commits of tip that onto does not have, oldest first.
Todo(repo, tip, onto) ==
    SortedSeq(Ancestors(repo.commits, tip) \ Ancestors(repo.commits, onto))

\* The files changed on onto since it and tip parted.
ChangedOn(repo, onto, tip) ==
    UNION {repo.commits[c].files :
              c \in Ancestors(repo.commits, onto) \ Ancestors(repo.commits, tip)}

\* The first commit of todo that touches a file of changed, 0 when none does.
FirstClash(repo, todo, changed) ==
    LET hits == {i \in DOMAIN todo : repo.commits[todo[i]].files \cap changed # {}}
    IN IF hits = {} THEN 0 ELSE CHOOSE i \in hits : \A j \in hits : i <= j

RebaseChecksFirstOnly(repo, branch, onto) ==
    LET tip == repo.heads[branch]
        todo == Todo(repo, tip, onto)
        changed == ChangedOn(repo, onto, tip)
        n == Len(repo.commits)
        clash == IF todo # <<>> /\ repo.commits[todo[1]].files \cap changed # {}
                 THEN 1 ELSE 0
    IN IF clash # 0
       THEN [ok |-> FALSE, replayed |-> clash - 1, repo |-> repo]
       ELSE IF onto \in Ancestors(repo.commits, tip)
       THEN [ok |-> TRUE, replayed |-> 0, repo |-> repo]
       ELSE [ok |-> TRUE, replayed |-> Len(todo),
             repo |-> [repo EXCEPT
                !.commits = @ \o [i \in 1..Len(todo) |->
                    Commit(<<IF i = 1 THEN onto ELSE n + i - 1>>, branch,
                           repo.commits[todo[i]].files)],
                !.heads = Put(@, branch,
                              IF todo = <<>> THEN onto ELSE n + Len(todo))]]

\* git rebase onto, on branch: the commits of the branch are replayed on onto
\* one after the other, and the rebase stops at the first that touches a file
\* changed on onto.  replayed is the number of commits applied.
Rebase(repo, branch, onto) ==
    LET tip == repo.heads[branch]
        todo == Todo(repo, tip, onto)
        changed == ChangedOn(repo, onto, tip)
        n == Len(repo.commits)
        clash == FirstClash(repo, todo, changed)
    IN IF clash # 0
       THEN [ok |-> FALSE, replayed |-> clash - 1, repo |-> repo]
       ELSE IF onto \in Ancestors(repo.commits, tip)
       THEN [ok |-> TRUE, replayed |-> 0, repo |-> repo]
       ELSE [ok |-> TRUE, replayed |-> Len(todo),
             repo |-> [repo EXCEPT
                !.commits = @ \o [i \in 1..Len(todo) |->
                    Commit(<<IF i = 1 THEN onto ELSE n + i - 1>>, branch,
                           repo.commits[todo[i]].files)],
                !.heads = Put(@, branch,
                              IF todo = <<>> THEN onto ELSE n + Len(todo))]]

\* git.CheckConflicts(branch, target): would merging branch into target clash?
CheckConflicts(repo, branch, target) ==
    LET tip == repo.heads[branch]
        onto == repo.heads[target]
    IN FirstClash(repo, Todo(repo, tip, onto), ChangedOn(repo, onto, tip)) # 0

\* git.MergeSquash(branch): one commit on the checked-out target with all the
\* branch's changes.
MergeSquash(repo, branch, target) ==
    LET tip == repo.heads[branch]
        onto == repo.heads[target]
        todo == Todo(repo, tip, onto)
    IN [repo EXCEPT
          !.commits = Append(@, Commit(<<onto>>, target,
                UNION {repo.commits[todo[i]].files : i \in DOMAIN todo})),
          !.heads = Put(@, target, Len(repo.commits) + 1)]

\* git.Checkout(branch)
Checkout(repo, branch) == [repo EXCEPT !.current = branch]

\* git.Pull on the checked-out target: fast-forward to origin's.
Pull(repo, target) == [repo EXCEPT !.heads = Put(@, target, repo.origin[target])]

MergeFFOnlyIntoMain(repo, branch) ==
    [repo EXCEPT !.heads = Put(@, Main, repo.heads[branch])]

\* git.MergeFFOnly(branch): git merge --ff-only branch, on the checked-out
\* branch.
MergeFFOnly(repo, branch) ==
    [repo EXCEPT !.heads = Put(@, repo.current, repo.heads[branch])]

\* Engineer.doMerge(branch, target) under the configured strategy; testsFail
\* and pushErr are the outcomes of the test command and of git push.
doMerge(branch, target, testsFail, pushErr) ==
    LET strategy == rigCfg.merge_strategy
        pulled == Pull(Checkout(gitRepo, target), target)
        rebased == Rebase(Checkout(pulled, branch), branch, pulled.origin[target])
        merged == IF strategy = StrategySquash
                  THEN MergeSquash(pulled, branch, target)
                  ELSE MergeFFOnly(Checkout(rebased.repo, target), branch)
        tip == merged.heads[target]
    IN /\ cmdIn = NoCommand
       /\ cmdIn' = [cmd |-> "doMerge", branch |-> branch, target |-> target,
                    testsFail |-> testsFail, pushErr |-> pushErr]
       /\ UNCHANGED <<beadsDB, rigCfg, dogVars>>
       /\ IF branch \notin DOMAIN gitRepo.heads
          THEN /\ cmdOut' = ProcessResult(FALSE, FALSE, FALSE,
                                          "branch not found", ZERO_SHA, 0)
               /\ UNCHANGED gitRepo
          ELSE IF target \notin DOMAIN gitRepo.origin
          THEN /\ cmdOut' = ProcessResult(FALSE, FALSE, FALSE,
                                          "failed to checkout target", ZERO_SHA, 0)
               /\ UNCHANGED gitRepo
          ELSE IF strategy = StrategySquash
          THEN IF CheckConflicts(pulled, branch, target)
               THEN /\ cmdOut' = ProcessResult(FALSE, TRUE, FALSE,
                                               "merge conflict", ZERO_SHA, 0)
                    /\ gitRepo' = pulled
               ELSE IF testsFail
               THEN /\ cmdOut' = ProcessResult(FALSE, FALSE, TRUE,
                                               "tests failed", ZERO_SHA, 0)
                    /\ gitRepo' = pulled
               ELSE IF pushErr
               THEN /\ cmdOut' = ProcessResult(FALSE, FALSE, FALSE,
                                               "failed to push", ZERO_SHA, 0)
                    /\ gitRepo' = merged
               ELSE /\ cmdOut' = ProcessResult(TRUE, FALSE, FALSE, "", tip, 0)
                    /\ gitRepo' = [merged EXCEPT !.origin = Put(@, target, tip)]
          ELSE IF strategy = StrategyRebaseFF
          THEN IF ~rebased.ok
               THEN /\ cmdOut' = ProcessResult(FALSE, TRUE, FALSE,
                                               "rebase conflict", ZERO_SHA,
                                               rebased.replayed)
                    /\ gitRepo' = rebased.repo
               ELSE IF testsFail
               THEN /\ cmdOut' = ProcessResult(FALSE, FALSE, TRUE,
                                               "tests failed", ZERO_SHA,
                                               rebased.replayed)
                    /\ gitRepo' = rebased.repo
               ELSE IF pushErr
               THEN /\ cmdOut' = ProcessResult(FALSE, FALSE, FALSE,
                                               "failed to push", ZERO_SHA,
                                               rebased.replayed)
                    /\ gitRepo' = merged
               ELSE /\ cmdOut' = ProcessResult(TRUE, FALSE, FALSE, "", tip,
                                               rebased.replayed)
                    /\ gitRepo' = [merged EXCEPT !.origin = Put(@, target, tip)]
          ELSE /\ cmdOut' = ProcessResult(FALSE, FALSE, FALSE,
                                          "unknown merge strategy", ZERO_SHA, 0)
               /\ gitRepo' = pulled

MergeUnchanged == UNCHANGED <<beadsDB, rigCfg, cmdIn, cmdOut, dogVars>>

\* git checkout -b b from main, pushed: an integration branch or an empty
\* feature branch.
createEmptyBranch(b) ==
    /\ cmdIn = NoCommand
    /\ b \notin DOMAIN gitRepo.heads
    /\ gitRepo' = [gitRepo EXCEPT
          !.heads = Put(@, b, gitRepo.heads[Main]),
          !.origin = Put(@, b, gitRepo.heads[Main])]
    /\ MergeUnchanged

\* One more commit on b writing file, pushed (createBranch after its
\* checkout, createConflictingCommitOnMain).
commitAndPush(b, file) ==
    /\ cmdIn = NoCommand
    /\ b \in DOMAIN gitRepo.heads
    /\ Len(gitRepo.commits) < MaxCommits
    /\ gitRepo' = [gitRepo EXCEPT
          !.commits = Append(@, Commit(<<gitRepo.heads[b]>>, b, {file})),
          !.heads = Put(@, b, Len(gitRepo.commits) + 1),
          !.origin = Put(@, b, Len(gitRepo.commits) + 1)]
    /\ MergeUnchanged

\* testGitRepo and newTestEngineer: one commit on main, pushed, main checked
\* out, and an engineer with some strategy.
MergeInit ==
    /\ IdlePool
    /\ beadsDB = EmptyMap
    /\ \E strategy \in {StrategyRebaseFF, StrategySquash, "cherry-pick"} :
          rigCfg = [default_branch |-> Main, merge_strategy |-> strategy]
    /\ gitRepo = [commits |-> <<Commit(<<>>, Main, {"README.md"})>>,
                  heads |-> [b \in {Main} |-> 1],
                  origin |-> [b \in {Main} |-> 1],
                  remotes |-> {"origin"},
                  current |-> Main]
    /\ cmdIn = NoCommand
    /\ cmdOut = NoCommand

MergeNext ==
    \/ \E b \in {FeatureTest, IntegrationL0g1x} : createEmptyBranch(b)
    \/ \E b \in {FeatureTest, IntegrationL0g1x, Main}, file \in MergeFiles :
          commitAndPush(b, file)
    \/ \E branch \in {FeatureTest, Nonexistent},
          target \in {Main, IntegrationL0g1x},
          testsFail \in BOOLEAN, pushErr \in BOOLEAN :
          doMerge(branch, target, testsFail, pushErr)

MergeSpec == MergeInit /\ [][MergeNext]_vars

\* ================================== refinery: Engineer.HandleMRInfoSuccess
StatusOpen == "open"
StatusClosed == "closed"

\* A bead with its status.
WithStatus(bead, status) ==
    [Type |-> bead.Type, Parent |-> bead.Parent, Priority |-> bead.Priority,
     Description |-> bead.Description, Status |-> status]

\* MRInfo
MRInfo(id, branch, target, sourceIssue) ==
    [cmd |-> "HandleMRInfoSuccess", ID |-> id, Branch |-> branch,
     Target |-> target, SourceIssue |-> sourceIssue]

\* beads.CloseWithReason(id): closeErr is its failing.
CloseWithReason(db, id, closeErr) ==
    IF closeErr \/ id \notin DOMAIN db THEN db
    ELSE [db EXCEPT ![id] = [@ EXCEPT !.Status = StatusClosed]]

ClosesSourceAlways(mr, cfg) == TRUE

\* "if mr.Target == defaultBranch": merging to the default branch closes the
\* source issue, merging to an integration branch leaves it open.
ClosesSource(mr, cfg) == mr.Target = cfg.default_branch

\* Engineer.HandleMRInfoSuccess(mr, result) for a successful result: the MR
\* bead is closed, the source issue is closed or left open, and the merged
\* branch is deleted when the config says so.  hasBeads: the engineer has a
\* beads client.
HandleMRInfoSuccess(mr, hasBeads, closeErr) ==
    LET mrClosed == IF hasBeads THEN CloseWithReason(beadsDB, mr.ID, closeErr)
                    ELSE beadsDB
        closes == mr.SourceIssue # NoID /\ ClosesSource(mr, rigCfg)
        leaves == mr.SourceIssue # NoID /\ ~ClosesSource(mr, rigCfg)
        closed == closes /\ hasBeads /\ ~closeErr
                     /\ mr.SourceIssue \in DOMAIN beadsDB
        deletes == rigCfg.delete_merged_branches
                     /\ mr.Branch \in DOMAIN gitRepo.heads
    IN /\ cmdIn = NoCommand
       /\ cmdIn' = [cmd |-> mr.cmd, ID |-> mr.ID, Branch |-> mr.Branch,
                    Target |-> mr.Target, SourceIssue |-> mr.SourceIssue,
                    hasBeads |-> hasBeads, closeErr |-> closeErr]
       /\ beadsDB' = IF closes /\ hasBeads
                     THEN CloseWithReason(mrClosed, mr.SourceIssue, closeErr)
                     ELSE mrClosed
       /\ gitRepo' = IF deletes
                     THEN [gitRepo EXCEPT !.heads = Drop(@, mr.Branch),
                                          !.origin = Drop(@, mr.Branch)]
                     ELSE gitRepo
       /\ cmdOut' = [cmd |-> "HandleMRInfoSuccess",
                     output |->
                        (IF closed THEN {"Closed source issue"} ELSE {})
                        \cup (IF leaves
                              THEN {"left open (merged to integration branch)"}
                              ELSE {})
                        \cup (IF deletes THEN {"Deleted merged branch"} ELSE {})
                        \cup {"Merged"}]
       /\ UNCHANGED <<rigCfg, dogVars>>

\* A rig after a successful doMerge: the source issue gt-issue and the merge
\* request gt-test are open, and the merged branch may still exist.
HandleInit ==
    /\ IdlePool
    /\ beadsDB = [id \in {"gt-issue", "gt-test"} |->
          IF id = "gt-issue"
          THEN WithStatus(Bead(TypeTask, NoID, 1, NoFields), StatusOpen)
          ELSE WithStatus(Bead(TypeMergeRequest, NoID, 1, NoFields), StatusOpen)]
    /\ \E default \in {Main, Develop}, delete \in BOOLEAN,
          kept \in SUBSET {FeatureTest} :
          /\ rigCfg = [default_branch |-> default,
                       delete_merged_branches |-> delete]
          /\ gitRepo = [commits |-> <<Commit(<<>>, Main, {"README.md"})>>,
                        heads |-> [b \in {Main} \cup kept |-> 1],
                        origin |-> [b \in {Main} \cup kept |-> 1],
                        remotes |-> {"origin"},
                        current |-> Main]
    /\ cmdIn = NoCommand
    /\ cmdOut = NoCommand

HandleNext ==
    \E target \in {Main, Develop, IntegrationL0g1x},
       sourceIssue \in {NoID, "gt-issue", "gt-gone"},
       hasBeads \in BOOLEAN, closeErr \in BOOLEAN :
       HandleMRInfoSuccess(MRInfo("gt-test", FeatureTest, target, sourceIssue),
                           hasBeads, closeErr)

HandleSpec == HandleInit /\ [][HandleNext]_vars

\* ============================================ queue state: queue-state.json
\* The file <townRoot>/.runtime/queue-state.json as os.ReadFile finds it:
\* absent, unreadable for another reason, or bytes.  Bytes are text that is
\* no JSON, the JSON null, or a JSON object: a function from keys to values
\* tagged with their JSON type.
FileAbsent == [kind |-> "absent"]
FileUnreadable == [kind |-> "unreadable"]
FileBytes(data) == [kind |-> "bytes", data |-> data]

NotJSON(text) == [json |-> "invalid", text |-> text]
JSONNull == [json |-> "null"]
JSONObject(fields) == [json |-> "object", fields |-> fields]

JBool(v) == [t |-> "bool", v |-> v]
JString(v) == [t |-> "string", v |-> v]
JNumber(v) == [t |-> "number", v |-> v]

\* QueueState
QueueState(paused, by, at, dispatchAt, dispatchCount) ==
    [Paused |-> paused, PausedBy |-> by, PausedAt |-> at,
     LastDispatchAt |-> dispatchAt, LastDispatchCount |-> dispatchCount]

\* &QueueState{}
ZeroQueueState == QueueState(FALSE, "", "", "", 0)

\* No *QueueState: nil.
NilState == [nil |-> TRUE]

\* The JSON type each field of QueueState takes.
QueueStateKeys ==
    [paused |-> "bool", paused_by |-> "string", paused_at |-> "string",
     last_dispatch_at |-> "string", last_dispatch_count |-> "number"]

\* json.Unmarshal(data, &state): keys that are absent leave the zero value,
\* unknown keys are ignored, a value of the wrong type is an error.
Unmarshal(data) ==
    IF data.json = "invalid"
    THEN [state |-> NilState, err |-> "invalid JSON"]
    ELSE IF data.json = "null"
    THEN [state |-> ZeroQueueState, err |-> ""]
    ELSE LET f == data.fields
             known == DOMAIN f \cap DOMAIN QueueStateKeys
             get(k, zero) == IF k \in DOMAIN f THEN f[k].v ELSE zero
         IN IF \E k \in known : f[k].t # QueueStateKeys[k]
            THEN [state |-> NilState, err |-> "cannot unmarshal"]
            ELSE [state |-> QueueState(get("paused", FALSE),
                                       get("paused_by", ""),
                                       get("paused_at", ""),
                                       get("last_dispatch_at", ""),
                                       get("last_dispatch_count", 0)),
                  err |-> ""]

\* json.MarshalIndent(state): paused always, the omitempty fields only when
\* they are not empty.
Marshal(state) ==
    LET keys == {"paused"}
                \cup (IF state.PausedBy # "" THEN {"paused_by"} ELSE {})
                \cup (IF state.PausedAt # "" THEN {"paused_at"} ELSE {})
                \cup (IF state.LastDispatchAt # "" THEN {"last_dispatch_at"}
                      ELSE {})
                \cup (IF state.LastDispatchCount # 0 THEN {"last_dispatch_count"}
                      ELSE {})
    IN JSONObject([k \in keys |->
          CASE k = "paused" -> JBool(state.Paused)
            [] k = "paused_by" -> JString(state.PausedBy)
            [] k = "paused_at" -> JString(state.PausedAt)
            [] k = "last_dispatch_at" -> JString(state.LastDispatchAt)
            [] k = "last_dispatch_count" -> JNumber(state.LastDispatchCount)])

loadQueueStateLenient(file) ==
    IF file.kind # "bytes" \/ Unmarshal(file.data).err # ""
    THEN [state |-> ZeroQueueState, err |-> ""]
    ELSE Unmarshal(file.data)

\* LoadQueueState: what it returns for the file as found.
loadQueueState(file) ==
    IF file.kind = "absent" THEN [state |-> ZeroQueueState, err |-> ""]
    ELSE IF file.kind # "bytes" THEN [state |-> NilState, err |-> "read failed"]
    ELSE Unmarshal(file.data)

QueueUnchanged == UNCHANGED <<beadsDB, gitRepo, dogVars>>

\* state, err := LoadQueueState(townRoot)
LoadQueueState ==
    /\ cmdIn' = [cmd |-> "LoadQueueState"]
    /\ cmdOut' = [cmd |-> "LoadQueueState",
                  state |-> loadQueueState(rigCfg.queue_state_file).state,
                  err |-> loadQueueState(rigCfg.queue_state_file).err]
    /\ UNCHANGED rigCfg
    /\ QueueUnchanged

\* A *QueueState is in hand.
HasState == cmdOut.cmd # "none" /\ cmdOut.state # NilState

\* SaveQueueState(townRoot, state) of the state in hand; failed: MkdirAll or
\* WriteFile returns an error.
SaveQueueState(failed) ==
    /\ HasState
    /\ cmdIn' = [cmd |-> "SaveQueueState", failed |-> failed]
    /\ cmdOut' = [cmd |-> "SaveQueueState", state |-> cmdOut.state,
                  err |-> IF failed THEN "write failed" ELSE ""]
    /\ rigCfg' = IF failed THEN rigCfg
                 ELSE [rigCfg EXCEPT
                         !.queue_state_file = FileBytes(Marshal(cmdOut.state))]
    /\ QueueUnchanged

\* s.SetPaused(by) at time now.
SetPaused(by, now) ==
    /\ HasState
    /\ cmdIn' = [cmd |-> "SetPaused", by |-> by, now |-> now]
    /\ cmdOut' = [cmd |-> "SetPaused", err |-> "",
                  state |-> [cmdOut.state EXCEPT !.Paused = TRUE,
                                                 !.PausedBy = by,
                                                 !.PausedAt = now]]
    /\ UNCHANGED rigCfg
    /\ QueueUnchanged

\* Faulty variant of SetResumed: the pauser's name is left in place.
SetResumedKeepsPauser ==
    /\ HasState
    /\ cmdIn' = [cmd |-> "SetResumed"]
    /\ cmdOut' = [cmd |-> "SetResumed", err |-> "",
                  state |-> [cmdOut.state EXCEPT !.Paused = FALSE,
                                                 !.PausedAt = ""]]
    /\ UNCHANGED rigCfg
    /\ QueueUnchanged

\* s.SetResumed()
SetResumed ==
    /\ HasState
    /\ cmdIn' = [cmd |-> "SetResumed"]
    /\ cmdOut' = [cmd |-> "SetResumed", err |-> "",
                  state |-> [cmdOut.state EXCEPT !.Paused = FALSE,
                                                 !.PausedBy = "",
                                                 !.PausedAt = ""]]
    /\ UNCHANGED rigCfg
    /\ QueueUnchanged

\* s.RecordDispatch(count) at time now.
RecordDispatch(count, now) ==
    /\ HasState
    /\ cmdIn' = [cmd |-> "RecordDispatch", count |-> count, now |-> now]
    /\ cmdOut' = [cmd |-> "RecordDispatch", err |-> "",
                  state |-> [cmdOut.state EXCEPT !.LastDispatchAt = now,
                                                 !.LastDispatchCount = count]]
    /\ UNCHANGED rigCfg
    /\ QueueUnchanged

\* Files nobody saved: other programs' or a hand's writing.
ForeignFiles ==
    {FileAbsent, FileUnreadable,
     FileBytes(NotJSON("")), FileBytes(NotJSON("{paused")),
     FileBytes(JSONNull),
     FileBytes(JSONObject(EmptyMap)),
     FileBytes(JSONObject([paused |-> JString("yes")])),
     FileBytes(JSONObject([paused |-> JBool(TRUE), paused_by |-> JNumber(1)])),
     FileBytes(JSONObject([paused |-> JBool(TRUE), owner |-> JNumber(1)]))}

QueueInit ==
    /\ IdlePool
    /\ beadsDB = EmptyMap
    /\ gitRepo = EmptyMap
    /\ \E file \in ForeignFiles : rigCfg = [queue_state_file |-> file]
    /\ cmdIn = NoCommand
    /\ cmdOut = NoCommand

QueueNext ==
    \/ LoadQueueState
    \/ \E failed \in BOOLEAN : SaveQueueState(failed)
    \/ \E by \in {"mayor", ""}, now \in {"T1", "T2"} : SetPaused(by, now)
    \/ SetResumed
    \/ \E count \in {0, 2}, now \in {"T1", "T2"} : RecordDispatch(count, now)

QueueSpec == QueueInit /\ [][QueueNext]_vars

\* A town whose queue was never saved: no state file, so LoadQueueState
\* hands out the zero state.
QueueZeroInit ==
    /\ IdlePool
    /\ beadsDB = EmptyMap
    /\ gitRepo = EmptyMap
    /\ rigCfg = [queue_state_file |-> FileAbsent]
    /\ cmdIn = NoCommand
    /\ cmdOut = NoCommand

QueueZeroSpec == QueueZeroInit /\ [][QueueNext]_vars

\* ===================================== bead description: queue metadata
\* A Go string is the sequence of its characters.
queueMetadataDelimiter == <<"-", "-", "-", "q", "u", "e", "u", "e", "-", "-", "-">>

\* The characters strings.TrimSpace removes.
WhiteSpace == {" ", "\t", "\n", "\r"}

NewLine == <<"\n">>

\* The keys of the key-value lines.
KeyTargetRig == <<"t", "a", "r", "g", "e", "t", "_", "r", "i", "g">>
KeyFormula == <<"f", "o", "r", "m", "u", "l", "a">>
KeyArgs == <<"a", "r", "g", "s">>
KeyVars == <<"v", "a", "r", "s">>
KeyEnqueuedAt == <<"e", "n", "q", "u", "e", "u", "e", "d", "_", "a", "t">>
KeyMerge == <<"m", "e", "r", "g", "e">>
KeyConvoy == <<"c", "o", "n", "v", "o", "y">>
KeyBaseBranch == <<"b", "a", "s", "e", "_", "b", "r", "a", "n", "c", "h">>

\* QueueMetadata
QueueMetadata(targetRig, formula, args, vars_, enqueuedAt, merge, convoy, baseBranch) ==
    [TargetRig |-> targetRig, Formula |-> formula, Args |-> args,
     Vars |-> vars_, EnqueuedAt |-> enqueuedAt, Merge |-> merge,
     Convoy |-> convoy, BaseBranch |-> baseBranch]

\* &QueueMetadata{}
ZeroQueueMetadata == QueueMetadata(<<>>, <<>>, <<>>, <<>>, <<>>, <<>>, <<>>, <<>>)

\* The nil *QueueMetadata.
NilMetadata == [nil |-> TRUE]

\* sub stands in s at position i.
HasAt(s, sub, i) ==
    /\ i + Len(sub) - 1 <= Len(s)
    /\ SubSeq(s, i, i + Len(sub) - 1) = sub

\* strings.Index(s, sub): the first position of sub in s, counted from 1;
\* 0 when sub is not in s (Go counts from 0 and returns -1).
Index(s, sub) ==
    LET hits == {i \in 1..Len(s) : HasAt(s, sub, i)}
    IN IF hits = {} THEN 0 ELSE CHOOSE i \in hits : \A j \in hits : i <= j

\* strings.Split(s, sep)
RECURSIVE Split(_, _)
Split(s, sep) ==
    LET i == Index(s, sep)
    IN IF i = 0 THEN <<s>>
       ELSE <<SubSeq(s, 1, i - 1)>> \o Split(SubSeq(s, i + Len(sep), Len(s)), sep)

\* Faulty variant of SplitKeyValue: the line is cut at every ": ".
SplitKeyValueAll(line) == Split(line, <<":", " ">>)

\* strings.SplitN(line, ": ", 2): the line cut at its first ": ".
SplitKeyValue(line) ==
    LET i == Index(line, <<":", " ">>)
    IN IF i = 0 THEN <<line>>
       ELSE <<SubSeq(line, 1, i - 1), SubSeq(line, i + 2, Len(line))>>

\* strings.Join(lines, sep)
RECURSIVE Join(_, _)
Join(lines, sep) ==
    IF lines = <<>> THEN <<>>
    ELSE IF Len(lines) = 1 THEN lines[1]
    ELSE lines[1] \o sep \o Join(Tail(lines), sep)

\* strings.TrimSpace(s)
TrimSpace(s) ==
    LET keep == {i \in 1..Len(s) : s[i] \notin WhiteSpace}
    IN IF keep = {} THEN <<>>
       ELSE SubSeq(s, CHOOSE i \in keep : \A j \in keep : i <= j,
                      CHOOSE i \in keep : \A j \in keep : i >= j)

\* strings.TrimRight(s, "\n")
TrimRightNewlines(s) ==
    LET keep == {i \in 1..Len(s) : s[i] # "\n"}
    IN IF keep = {} THEN <<>>
       ELSE SubSeq(s, 1, CHOOSE i \in keep : \A j \in keep : i >= j)

\* fmt.Sprintf("key: %s", value), appended when the value is not empty.
KeyValueLine(key, value) ==
    IF value = <<>> THEN <<>> ELSE <<key \o <<":", " ">> \o value>>

\* FormatQueueMetadata(m)
FormatQueueMetadata(m) ==
    Join(<<queueMetadataDelimiter>>
         \o KeyValueLine(KeyTargetRig, m.TargetRig)
         \o KeyValueLine(KeyFormula, m.Formula)
         \o KeyValueLine(KeyArgs, m.Args)
         \o KeyValueLine(KeyVars, m.Vars)
         \o KeyValueLine(KeyEnqueuedAt, m.EnqueuedAt)
         \o KeyValueLine(KeyMerge, m.Merge)
         \o KeyValueLine(KeyConvoy, m.Convoy)
         \o KeyValueLine(KeyBaseBranch, m.BaseBranch),
         NewLine)

\* The switch on key.
SetField(m, key, val) ==
    CASE key = KeyTargetRig -> [m EXCEPT !.TargetRig = val]
      [] key = KeyFormula -> [m EXCEPT !.Formula = val]
      [] key = KeyArgs -> [m EXCEPT !.Args = val]
      [] key = KeyVars -> [m EXCEPT !.Vars = val]
      [] key = KeyEnqueuedAt -> [m EXCEPT !.EnqueuedAt = val]
      [] key = KeyMerge -> [m EXCEPT !.Merge = val]
      [] key = KeyConvoy -> [m EXCEPT !.Convoy = val]
      [] key = KeyBaseBranch -> [m EXCEPT !.BaseBranch = val]
      [] OTHER -> m

\* The loop over the lines of the section, from line i on, with m as filled
\* so far: blank lines and lines that are not key-value lines are skipped, a
\* second delimiter ends the loop.
RECURSIVE ParseLines(_, _, _)
ParseLines(lines, i, m) ==
    IF i > Len(lines) THEN m
    ELSE LET line == TrimSpace(lines[i])
             parts == SplitKeyValue(line)
         IN IF line = <<>> THEN ParseLines(lines, i + 1, m)
            ELSE IF line = queueMetadataDelimiter THEN m
            ELSE IF Len(parts) # 2 THEN ParseLines(lines, i + 1, m)
            ELSE ParseLines(lines, i + 1,
                            SetField(m, TrimSpace(parts[1]), TrimSpace(parts[2])))

\* ParseQueueMetadata(description)
ParseQueueMetadata(description) ==
    LET idx == Index(description, queueMetadataDelimiter)
        section == SubSeq(description, idx + Len(queueMetadataDelimiter),
                          Len(description))
    IN IF idx = 0 THEN NilMetadata
       ELSE ParseLines(Split(section, NewLine), 1, ZeroQueueMetadata)

\* Faulty variant of StripQueueMetadata: the newline before the section stays.
StripQueueMetadataKeepsNewline(description) ==
    LET idx == Index(description, queueMetadataDelimiter)
    IN IF idx = 0 THEN description ELSE SubSeq(description, 1, idx - 1)

\* StripQueueMetadata(description)
StripQueueMetadata(description) ==
    LET idx == Index(description, queueMetadataDelimiter)
    IN IF idx = 0 THEN description
       ELSE TrimRightNewlines(SubSeq(description, 1, idx - 1))

\* Field values: empty, a word, a value with ": " in it, one that is the
\* delimiter itself, one with a space at its end and one with a newline in it.
FieldValues ==
    {<<>>, <<"g", "a", "s", "t", "o", "w", "n">>, <<"a", ":", " ", "b">>, <<"-", "-", "-", "q", "u", "e", "u", "e", "-", "-", "-">>,
     <<"m", "o", "l", " ">>, <<"x", "\n", "y">>}

\* The metadata of one enqueued bead: the rig and the formula are anything,
\* each other field is empty or set.
MetadataInputs ==
    {QueueMetadata(targetRig, formula, args, vars_, enqueuedAt, merge, convoy, baseBranch) :
        targetRig \in FieldValues, formula \in FieldValues,
        args \in {<<>>, <<"-", "-", "f", "a", "s", "t">>},
        vars_ \in {<<>>, <<"k", "=", "v", ",", "n", "=", "1">>},
        enqueuedAt \in {<<>>, <<"T", "1">>},
        merge \in {<<>>, <<"m", "r">>},
        convoy \in {<<>>, <<"h", "q", "-", "c", "v">>},
        baseBranch \in {<<>>, <<"m", "a", "i", "n">>}}

\* Bead descriptions: empty, one line, lines with a blank line and a line that
\* looks like a key-value line, one ending in a space, one ending in
\* newlines, one ending in most of a delimiter, and one that already has a
\* queue section.
Descriptions ==
    {<<>>, <<"F", "i", "x", " ", "i", "t">>,
     <<"a", "\n", "\n", "m", "e", "r", "g", "e", ":", " ", "n", "o">>,
     <<"a", " ">>,
     <<"a", "\n", "\n">>,
     <<"-", "-", "-", "q", "u", "e", "u", "e", "-", "-">>,
     <<"a", "\n", "-", "-", "-", "q", "u", "e", "u", "e", "-", "-", "-", "\n", "m", "e", "r", "g", "e", ":", " ", "o", "l", "d", "\n">>}

\* A bead description as the queue commands see it: text is the description,
\* enqueued whether a queue section was appended to it, strips the number of
\* times it was stripped since, parsed the last answer of ParseQueueMetadata.
Unparsed == [unparsed |-> TRUE]

QueueBead(text, enqueued, strips, parsed) ==
    [cmd |-> "queue-metadata", text |-> text, enqueued |-> enqueued,
     strips |-> strips, parsed |-> parsed]

\* Enqueue: the formatted block is appended to the description after a
\* newline, or is the whole description when there was none.
Enqueue ==
    /\ ~cmdOut.enqueued
    /\ cmdOut.strips = 0
    /\ cmdOut' = QueueBead(IF cmdIn.d = <<>> /\ cmdIn.bare
                           THEN FormatQueueMetadata(cmdIn.m)
                           ELSE cmdIn.d \o NewLine \o FormatQueueMetadata(cmdIn.m),
                           TRUE, 0, Unparsed)
    /\ UNCHANGED <<dogVars, beadsDB, gitRepo, rigCfg, cmdIn>>

\* The dispatcher reads the metadata of the bead.
Parse ==
    /\ cmdOut' = QueueBead(cmdOut.text, cmdOut.enqueued, cmdOut.strips,
                           ParseQueueMetadata(cmdOut.text))
    /\ UNCHANGED <<dogVars, beadsDB, gitRepo, rigCfg, cmdIn>>

\* Dequeue: the queue section is taken off the description.
Strip ==
    /\ cmdOut.strips < MaxStrips
    /\ cmdOut' = QueueBead(StripQueueMetadata(cmdOut.text), cmdOut.enqueued,
                           cmdOut.strips + 1, Unparsed)
    /\ UNCHANGED <<dogVars, beadsDB, gitRepo, rigCfg, cmdIn>>

MetadataInit ==
    /\ IdlePool
    /\ beadsDB = EmptyMap
    /\ gitRepo = EmptyMap
    /\ rigCfg = EmptyMap
    /\ \E m \in MetadataInputs, d \in Descriptions, bare \in BOOLEAN :
          /\ cmdIn = [cmd |-> "queue-metadata", m |-> m, d |-> d, bare |-> bare]
          /\ cmdOut = QueueBead(d, FALSE, 0, Unparsed)

MetadataNext == Enqueue \/ Parse \/ Strip

MetadataSpec == MetadataInit /\ [][MetadataNext]_vars

\* ============================================================== claims
Busy == Cardinality(DOMAIN active)

\* The places a warrant can be: Active Dances holding it, entries of Pending,
\* records of the completed partition.
InActive(w) == Cardinality({id \in DOMAIN active : active[id].warrant.id = w})
InPending(w) == Cardinality({i \in DOMAIN pending : pending[i].id = w})
InCompleted(w) ==
    Cardinality({id \in DOMAIN storeCompleted : storeCompleted[id].warrant.id = w})
Places(w) == InActive(w) + InPending(w) + InCompleted(w)

\* No record of the warrant in either partition of the store.
Unrecorded(w) ==
    /\ \A id \in DOMAIN storeActive : storeActive[id].warrant.id # w
    /\ \A id \in DOMAIN storeCompleted : storeCompleted[id].warrant.id # w

\* C1: in every reachable state of the pool, after any interleaving of Submit,
\* Dance completions and Recover, the number of Dances in Active is at most
\* Capacity.
C1_ActiveWithinCapacity == Busy <= capacity

\* C1 witness: after a crash and Recover the pool is full again, a warrant
\* waits, and a Dance has completed.
C1_Witness ==
    /\ up /\ crashes > 0
    /\ Busy = capacity
    /\ pending # <<>>
    /\ DOMAIN finished # {}

WarrantIDs == 1..MaxWarrants

InOrder(log) == \A i \in DOMAIN log, j \in DOMAIN log : i < j => log[i] < log[j]

\* C3: a warrant submitted while the pool is at capacity is eventually given a
\* Dance; Dances are allocated in the order the warrants were submitted (warrant
\* IDs are handed out in submission order); no warrant gets two Dances.
C3_QueuedFIFO ==
    /\ \A w \in WarrantIDs : (w \in waited) ~> (w \in DOMAIN assignedTo)
    /\ [](InOrder(startLog))
    /\ [](\A w \in DOMAIN assignedTo : Cardinality(assignedTo[w]) <= 1)

\* C3 witness: two warrants waited behind a full pool of one dog and each got
\* its Dance.
C3_Witness ==
    /\ capacity = 1
    /\ waited = {2, 3}
    /\ startLog = <<1, 2, 3>>

\* The Runs that have returned, each with its warrant and its final state:
\* released ones, and those back in the pool's hands waiting for release.
Returned ==
    {finished[id] : id \in DOMAIN finished}
        \cup {[warrant |-> active[id].warrant.id, state |-> active[id].state] :
                id \in {x \in DOMAIN active : Terminal(active[x].state)}}

Effects(w) == cancels[w] + terminates[w]

SawAlive(w) ==
    w \in DOMAIN peeked /\ \E k \in 1..MaxAttempts : <<k, TRUE>> \in peeked[w]

NeverAlive(w) ==
    w \in DOMAIN peeked /\ peeked[w] = {<<k, FALSE>> : k \in 1..MaxAttempts}

RanToComplete(w) ==
    \E id \in DOMAIN finished :
        finished[id].warrant = w /\ finished[id].state = StateComplete

DanceIDs == 1..MaxWarrants

\* A returned Run ended where the state machine leads from what the probe
\* showed: pardoned on ALIVE, executed after three silent attempts, failed when
\* the probe could not reach the session.
ConsistentEnd(r) ==
    \/ /\ r.state = StateComplete /\ SawAlive(r.warrant)
       /\ cancels[r.warrant] = 1 /\ terminates[r.warrant] = 0
    \/ /\ r.state = StateComplete /\ NeverAlive(r.warrant)
       /\ cancels[r.warrant] = 0 /\ terminates[r.warrant] = 1
    \/ /\ r.state = StateFailed /\ ~sessionUp[r.warrant]
       /\ Effects(r.warrant) = 0

AtMostOnce == \A w \in DOMAIN cancels : cancels[w] <= 1 /\ terminates[w] <= 1

ResumedEndConsistent ==
    \A id \in resumed \cap DOMAIN finished : ConsistentEnd(finished[id])

Recorded(id, state) ==
    \/ id \in DOMAIN storeActive /\ storeActive[id].state = state
    \/ id \in DOMAIN storeCompleted /\ storeCompleted[id].state = state

ReturnedIDs ==
    DOMAIN finished \cup {id \in DOMAIN active : Terminal(active[id].state)}

EndOf(id) ==
    IF id \in DOMAIN active
    THEN [warrant |-> active[id].warrant.id, state |-> active[id].state]
    ELSE finished[id]

C10_SubmitAtCapacityQueues ==
    [][(nextWarrant' = nextWarrant + 1 /\ Busy = capacity) =>
          /\ pending' = Append(pending, Warrant(nextWarrant, nextWarrant))
          /\ active' = active
          /\ nextDance' = nextDance
          /\ storeActive' = storeActive
          /\ submitRet'.err = ErrNone
          /\ submitRet'.id = nextWarrant]_vars

\* C10 witness: a Submit at capacity has returned with the warrant queued
\* behind an older one.
C10_Witness ==
    /\ submitRet.queued /\ submitRet.err = ErrNone
    /\ Len(pending) = 2
    /\ pending[2].id = submitRet.id
    /\ Busy = capacity

Submitted == nextWarrant - 1

\* C9: when a Dance is released while Pending is non-empty, the oldest pending
\* warrant leaves the queue and gets a new Dance in the same step, so the slot
\* is never free while a warrant waits; a Submit while warrants wait allocates
\* nothing and queues its warrant behind them.  With capacity 5 and 6 warrants
\* submitted, 5 run and the 6th waits until the first release, which gives it
\* its Dance.
C9_FreedSlotToOldest ==
    /\ [][(pending # <<>> /\ DOMAIN finished' # DOMAIN finished) =>
            /\ pending' = Tail(pending)
            /\ \E id \in DOMAIN active' \ DOMAIN active :
                  active'[id] = NewDance(Head(pending))
            /\ Cardinality(DOMAIN active') = Busy]_vars
    /\ [][(pending # <<>> /\ nextWarrant' # nextWarrant) =>
            /\ active' = active
            /\ pending' = Append(pending, Warrant(nextWarrant, nextWarrant))]_vars
    /\ [](pending # <<>> => Busy = capacity)
    /\ [](capacity = 5 /\ Submitted = 6 /\ DOMAIN finished = {} =>
            /\ Busy = 5
            /\ pending = <<Warrant(6, 6)>>
            /\ 6 \notin DOMAIN assignedTo)
    /\ [](capacity = 5 /\ Submitted >= 6 /\ DOMAIN finished # {} =>
            6 \in DOMAIN assignedTo)

\* C9 witness: of 7 warrants submitted to 5 dogs, the 6th got the dog freed by
\* the first release and the 7th still waits.
C9_Witness ==
    /\ capacity = 5
    /\ waited = {6, 7}
    /\ Cardinality(DOMAIN finished) = 1
    /\ \E id \in DOMAIN active : active[id].warrant.id = 6
    /\ pending = <<Warrant(7, 7)>>
    /\ Busy = 5

WellFormed(w) == w.id # Empty /\ w.target # Empty

\* C11: a Submit of a warrant with an empty Target or an empty ID returns
\* InvalidWarrant and changes nothing else: Active, Pending, the store and the
\* Dance counter stay as they were, at capacity or not, and no Dance, queue
\* entry or store record ever holds a malformed warrant.
C11_InvalidWarrantRejected ==
    /\ [][(submitRet' # submitRet /\ submitRet'.err = ErrInvalidWarrant) =>
            UNCHANGED <<active, pending, storeActive, storeCompleted, nextDance,
                        nextWarrant, tracked, assignedTo>>]_vars
    /\ [](\A id \in DOMAIN active : WellFormed(active[id].warrant))
    /\ [](\A i \in DOMAIN pending : WellFormed(pending[i]))
    /\ [](\A id \in DOMAIN storeActive : WellFormed(storeActive[id].warrant))
    /\ [](\A id \in DOMAIN storeCompleted : WellFormed(storeCompleted[id].warrant))

\* C11 witness: a warrant with an empty Target was rejected by a pool at
\* capacity with a warrant waiting.
C11_Witness ==
    /\ submitRet.err = ErrInvalidWarrant
    /\ submitRet.id # Empty
    /\ Busy = capacity
    /\ pending # <<>>

RECURSIVE WaitThrough(_)
\* Seconds waited when the timers of attempts 1..n have all run out.
WaitThrough(n) == IF n = 0 THEN 0 ELSE Timeout(n) + WaitThrough(n - 1)

\* C12: the wait armed for attempt n is 60, 120 and 240 seconds for n = 1, 2,
\* 3; a Dance makes no other attempt, so an uninterrupted Dance has waited at
\* most 420 seconds when it pardons or executes.
C12_TimeoutTable ==
    \A id \in DOMAIN active :
        LET d == active[id]
        IN /\ d.attempt \in 1..3
           /\ d.state = StateEvaluating =>
                 d.timeout = (CASE d.attempt = 1 -> 60
                                [] d.attempt = 2 -> 120
                                [] d.attempt = 3 -> 240)
           /\ ~d.recovered => WaitThrough(d.attempt) <= 420

\* C12 witness: a Dance that got no ALIVE in 60 and 120 seconds waits 240
\* seconds in its third attempt, 420 seconds in all.
C12_Witness ==
    \E id \in DOMAIN active :
        /\ active[id].state = StateEvaluating
        /\ active[id].attempt = 3
        /\ active[id].timeout = 240
        /\ peeked[active[id].warrant.id] = {<<1, FALSE>>, <<2, FALSE>>}
        /\ WaitThrough(active[id].attempt) = 420

\* C13: the Executing step of a recovered Dance asks the probe whether the
\* session exists; when it is gone Terminate is not called again; a recovered
\* Dance on the Executing path is Complete only with the session gone.
C13_RecoveredExecutingVerifies ==
    /\ [][\A id \in DOMAIN active \cap DOMAIN active' :
            (/\ active[id].state = StateExecuting
             /\ active[id].recovered
             /\ ~active[id].acted
             /\ active'[id].acted) =>
                /\ active'[id].verified # ProbeNotAsked
                /\ ~sessionUp[active[id].warrant.id] =>
                      /\ active'[id].verified = ProbeGone
                      /\ terminates' = terminates]_vars
    /\ [](\A id \in DOMAIN active :
            (/\ active[id].recovered
             /\ active[id].state = StateComplete
             /\ cancels[active[id].warrant.id] = 0) =>
                /\ active[id].verified # ProbeNotAsked
                /\ ~sessionUp[active[id].warrant.id])
    /\ [](\A id \in resumed \cap DOMAIN finished :
            (/\ finished[id].state = StateComplete
             /\ cancels[finished[id].warrant] = 0) =>
                ~sessionUp[finished[id].warrant])

\* C13 witness: a Dance recovered in Executing found its session already gone
\* and is Complete with Terminate called once.
C13_Witness ==
    \E id \in DOMAIN active :
        /\ active[id].verified = ProbeGone
        /\ active[id].state = StateComplete
        /\ terminates[active[id].warrant.id] = 1

\* ---------------------------------------------------------------- C15
\* The branch a gt mq submit is asked to submit: --branch, else the current
\* branch.
AskedBranch == IF cmdIn.Branch = NoBranch THEN cmdIn.Current ELSE cmdIn.Branch

MergeRequests(db) == {id \in DOMAIN db : db[id].Type = TypeMergeRequest}

\* C15: a gt mq submit of the branch main or master, whether that is the
\* current branch or the one given with --branch, returns an error and
\* creates no merge-request bead.
C15_MainMasterRefused ==
    (cmdIn.cmd = CmdMqSubmit /\ AskedBranch \in {Main, Master})
        => /\ cmdOut.err # ""
           /\ cmdOut.mr = NoID
           /\ MergeRequests(beadsDB) = {}
           /\ (cmdIn.rig # NoID =>
                 cmdOut.err = "cannot submit main/master branch to merge queue")

\* gt mq submit --branch master from a work branch, inside a rig, with an
\* issue given: refused.
C15_Witness ==
    /\ cmdIn.cmd = CmdMqSubmit
    /\ cmdIn.rig # NoID
    /\ cmdIn.Branch = Master
    /\ cmdIn.Current # Main
    /\ cmdIn.Issue = "gt-task"
    /\ ~cmdIn.createErr
    /\ cmdOut.err = "cannot submit main/master branch to merge queue"
    /\ MergeRequests(beadsDB) = {}

\* ---------------------------------------------------------------- C16
\* The issue a gt mq submit is about: --issue, else the one in the branch name.
AskedIssue ==
    IF cmdIn.Issue = NoID THEN parseBranchName(AskedBranch).Issue
    ELSE cmdIn.Issue

\* The run got as far as choosing a target.
ChoseTarget ==
    /\ cmdIn.cmd = CmdMqSubmit
    /\ cmdOut.err \in {"", "creating merge request"}

\* The source issue has a parent, the parent is an epic, and its integration
\* branch was found locally or, failing that, on origin.
ParentEpicBranchFound ==
    /\ AskedIssue \in DOMAIN beadsDB
    /\ beadsDB[AskedIssue].Parent \in DOMAIN beadsDB
    /\ beadsDB[beadsDB[AskedIssue].Parent].Type = TypeEpic
    /\ ~cmdIn.localErr
    /\ LET b == <<"integration", beadsDB[AskedIssue].Parent>>
       IN \/ b \in gitRepo.local
          \/ ~cmdIn.remoteErr /\ b \in gitRepo.remote

NestedUnderBranchlessSubEpic ==
    /\ ChoseTarget
    /\ cmdIn.Epic = NoID
    /\ ~cmdIn.localErr /\ ~cmdIn.remoteErr
    /\ AskedIssue = "gt-task"
    /\ beadsDB["gt-task"].Parent = "gt-sub"
    /\ beadsDB["gt-sub"].Type = TypeEpic
    /\ beadsDB["gt-sub"].Parent = "gt-gp"
    /\ beadsDB["gt-gp"].Type = TypeEpic
    /\ <<"integration", "gt-sub">> \notin gitRepo.local \cup gitRepo.remote
    /\ <<"integration", "gt-gp">> \in gitRepo.local \cup gitRepo.remote

\* C17: detection walks the parent chain: for a task under a sub-epic that
\* has no integration branch, under an epic that has one, the merge request
\* targets the grandparent's integration branch.
C17_DetectionWalksParentChain ==
    NestedUnderBranchlessSubEpic
        => cmdOut.target = <<"integration", "gt-gp">>

\* ---------------------------------------------------------------- C18
\* No integration branch applies: none exists and none is named with --epic.
NoIntegrationBranchApplies ==
    /\ ChoseTarget
    /\ cmdIn.Epic = NoID
    /\ gitRepo.local \cup gitRepo.remote = {}

\* C18: when no integration branch applies, the merge request targets the
\* rig's configured default branch, whatever that branch is.
C18_FallbackIsDefaultBranch ==
    NoIntegrationBranchApplies => cmdOut.target = rigCfg.default_branch

\* ---------------------------------------------------------------- C14
\* The last command was a push to refs/heads/main.
PushToMain ==
    /\ cmdIn.cmd = "pre-push"
    /\ cmdIn.remoteRef = <<"refs", "heads", "main">>

\* The commits the last push offered beyond what the remote ref had.
Offered ==
    Ancestors(gitRepo.commits, cmdIn.lsha) \ Ancestors(gitRepo.commits, cmdIn.rsha)

\* The offered commits that were made on an integration/* branch.
OfferedIntegration ==
    {c \in Offered : gitRepo.commits[c].on[1] = "integration"}

\* The offered merge commits whose merged-in side was made off main and off
\* every integration/* branch.
OfferedPlainMerges ==
    {c \in Offered :
        /\ Len(gitRepo.commits[c].parents) = 2
        /\ gitRepo.commits[gitRepo.commits[c].parents[2]].on[1]
              \notin {"integration", "main"}}

\* The offered commits that origin has on an integration/* branch.
OnOriginIntegration ==
    {c \in Offered :
        \E b \in DOMAIN gitRepo.origin :
            /\ b[1] = "integration"
            /\ c \in Ancestors(gitRepo.commits, gitRepo.origin[b])}

\* C14: a push to main that brings in commits made on an integration/*
\* branch exits 1 without GT_INTEGRATION_LAND=1 and 0 with it; a push to main
\* whose merge brings in a non-integration branch, none of its commits being
\* on an integration/* branch, exits 0 without the variable.
C14_IntegrationLandGuard ==
    PushToMain =>
        /\ (OfferedIntegration # {} /\ ~cmdIn.GT_INTEGRATION_LAND)
              => cmdOut.exit = 1
        /\ (OfferedIntegration # {} /\ cmdIn.GT_INTEGRATION_LAND)
              => cmdOut.exit = 0
        /\ (OnOriginIntegration = {} /\ OfferedPlainMerges # {}
              /\ ~cmdIn.GT_INTEGRATION_LAND)
              => cmdOut.exit = 0

\* A merge of origin/integration/epic into a main that had moved on, pushed
\* without the variable: blocked, and origin's main stays where it was.
C14_Witness ==
    /\ PushToMain
    /\ ~cmdIn.GT_INTEGRATION_LAND
    /\ Len(gitRepo.commits[cmdIn.lsha].parents) = 2
    /\ IntegrationEpic \in DOMAIN gitRepo.origin
    /\ gitRepo.commits[cmdIn.lsha].parents[2] = gitRepo.origin[IntegrationEpic]
    /\ OfferedIntegration # {}
    /\ cmdOut.exit = 1
    /\ gitRepo.origin[Main] = cmdIn.rsha

\* ---------------------------------------------------------------- C19
\* gt epic create is being run with --parent naming an epic that has no
\* integration branch, without --base-branch and --no-integration-branch.
ParentEpicLacksBranch ==
    /\ cmdIn = NoCommand
    /\ cmdIn'.cmd = CmdEpicCreate
    /\ cmdIn'.Parent \in DOMAIN beadsDB
    /\ beadsDB[cmdIn'.Parent].Type = TypeEpic
    /\ beadsDB[cmdIn'.Parent].Description.integration_branch = NoBranch
    /\ cmdIn'.BaseBranch = NoBranch
    /\ ~cmdIn'.NoIntegrationBranch

\* C19: gt epic create under a parent epic without an integration branch,
\* with neither --base-branch nor --no-integration-branch, returns an error
\* and changes nothing: no epic bead and no integration branch are created.
C19_ParentWithoutBranchRejected ==
    [][ParentEpicLacksBranch =>
          /\ cmdOut'.err # ""
          /\ cmdOut'.epic = NoID
          /\ cmdOut'.branch = NoBranch
          /\ UNCHANGED <<beadsDB, gitRepo, rigCfg>>]_vars

\* The command was refused for the parent's missing branch, in a rig with
\* integration branches enabled, and no bead was added.
C19_Witness ==
    /\ cmdIn.cmd = CmdEpicCreate
    /\ cmdIn.Parent = "gt-gp"
    /\ cmdIn.BaseBranch = NoBranch
    /\ ~cmdIn.NoIntegrationBranch
    /\ ~cmdIn.createErr /\ ~cmdIn.branchErr
    /\ rigCfg.integration_branch_enabled
    /\ beadsDB["gt-gp"].Description.integration_branch = NoBranch
    /\ cmdOut.err = "parent epic has no integration branch"
    /\ DOMAIN beadsDB \cap FreshIDs = {}
    /\ gitRepo.local = {Main, Develop}

\* ---------------------------------------------------------------- C20
\* Some commit of the source branch and some commit of the target, both made
\* since the two parted, write the same file.
BranchesConflict(branch, target) ==
    LET mine == Ancestors(gitRepo.commits, gitRepo.heads[branch])
        theirs == Ancestors(gitRepo.commits, gitRepo.origin[target])
    IN \E c \in mine \ theirs, d \in theirs \ mine :
          gitRepo.commits[c].files \cap gitRepo.commits[d].files # {}

\* doMerge is being run, under rebase-ff or squash, on an existing branch
\* that conflicts with its target.
MergingConflictingBranch ==
    /\ cmdIn = NoCommand
    /\ cmdIn'.cmd = "doMerge"
    /\ rigCfg.merge_strategy \in {StrategyRebaseFF, StrategySquash}
    /\ cmdIn'.branch \in DOMAIN gitRepo.heads
    /\ cmdIn'.target \in DOMAIN gitRepo.origin
    /\ BranchesConflict(cmdIn'.branch, cmdIn'.target)

\* C20: under rebase-ff and under squash, doMerge of a branch that conflicts
\* with its target, in its first commit or only in a later one, returns
\* Success=false and Conflict=true.
C20_ConflictReported ==
    [][MergingConflictingBranch =>
          /\ ~cmdOut'.Success
          /\ cmdOut'.Conflict]_vars

\* A rebase-ff merge whose first commit applied and whose second clashed.
C20_Witness ==
    /\ cmdIn.cmd = "doMerge"
    /\ rigCfg.merge_strategy = StrategyRebaseFF
    /\ ~cmdOut.Success
    /\ cmdOut.Conflict
    /\ cmdOut.replayed = 1

\* ---------------------------------------------------------------- C21
\* The files written by the commits of tip that onto does not have.
FilesBeyond(repo, tip, onto) ==
    UNION {repo.commits[c].files :
              c \in Ancestors(repo.commits, tip) \ Ancestors(repo.commits, onto)}

\* doMerge is being run with the integration branch as target.
MergingIntoIntegration ==
    /\ cmdIn = NoCommand
    /\ cmdIn'.cmd = "doMerge"
    /\ cmdIn'.target = IntegrationL0g1x

\* C21: a doMerge into an integration branch leaves main where it was, in the
\* clone and on origin, and when it succeeds the files the branch wrote are
\* written by the commits it added to the integration branch, in the clone
\* and on origin.
C21_IntegrationTargetSparesMain ==
    [][MergingIntoIntegration =>
          /\ gitRepo'.heads[Main] = gitRepo.heads[Main]
          /\ gitRepo'.origin[Main] = gitRepo.origin[Main]
          /\ cmdOut'.Success =>
                /\ gitRepo'.origin[IntegrationL0g1x]
                      = gitRepo'.heads[IntegrationL0g1x]
                /\ FilesBeyond(gitRepo, gitRepo.heads[cmdIn'.branch],
                               gitRepo.origin[IntegrationL0g1x])
                      = FilesBeyond(gitRepo', gitRepo'.origin[IntegrationL0g1x],
                                    gitRepo.origin[IntegrationL0g1x])]_vars

\* A merged feature branch whose file is on integration/l0g1x and not on main.
C21_Witness ==
    /\ cmdIn.cmd = "doMerge"
    /\ cmdIn.target = IntegrationL0g1x
    /\ cmdOut.Success
    /\ cmdOut.MergeCommit = gitRepo.origin[IntegrationL0g1x]
    /\ gitRepo.commits[cmdOut.MergeCommit].on = FeatureTest
    /\ cmdOut.MergeCommit \notin Ancestors(gitRepo.commits, gitRepo.origin[Main])
    /\ cmdOut.MergeCommit \notin Ancestors(gitRepo.commits, gitRepo.heads[Main])

\* ---------------------------------------------------------------- C22
\* HandleMRInfoSuccess is being run for a merge request of gt-issue.
HandlingSuccess ==
    /\ cmdIn = NoCommand
    /\ cmdIn'.cmd = "HandleMRInfoSuccess"
    /\ cmdIn'.SourceIssue = "gt-issue"

\* C22: HandleMRInfoSuccess closes the source issue only when the merge
\* request's target is the rig's default branch; for any other target, an
\* integration branch included, the source issue stays as it was and the
\* output says it was left open.
C22_SourceClosedOnlyOnDefault ==
    [][HandlingSuccess =>
          /\ beadsDB'["gt-issue"] # beadsDB["gt-issue"]
                => cmdIn'.Target = rigCfg.default_branch
          /\ "Closed source issue" \in cmdOut'.output
                => cmdIn'.Target = rigCfg.default_branch
          /\ cmdIn'.Target # rigCfg.default_branch
                => /\ beadsDB'["gt-issue"].Status = StatusOpen
                   /\ "left open (merged to integration branch)"
                         \in cmdOut'.output
          /\ (cmdIn'.Target = rigCfg.default_branch
                /\ cmdIn'.hasBeads /\ ~cmdIn'.closeErr)
                => beadsDB'["gt-issue"].Status = StatusClosed]_vars

\* A merge to integration/l0g1x handled: the merge request is closed and the
\* source issue is open.
C22_Witness ==
    /\ cmdIn.cmd = "HandleMRInfoSuccess"
    /\ cmdIn.Target = IntegrationL0g1x
    /\ cmdIn.SourceIssue = "gt-issue"
    /\ beadsDB["gt-test"].Status = StatusClosed
    /\ beadsDB["gt-issue"].Status = StatusOpen
    /\ "left open (merged to integration branch)" \in cmdOut.output

\* ---------------------------------------------------------------- C23
\* LoadQueueState is being called.
Loading == cmdIn'.cmd = "LoadQueueState"

\* The bytes of the file are no JSON, or JSON that does not fit QueueState.
ParseFails(file) ==
    /\ file.kind = "bytes"
    /\ \/ file.data.json = "invalid"
       \/ /\ file.data.json = "object"
          /\ \E k \in DOMAIN file.data.fields \cap DOMAIN QueueStateKeys :
                file.data.fields[k].t # QueueStateKeys[k]

\* C23: LoadQueueState with no queue-state.json returns the zero state and no
\* error, and does not create the file; with a file that cannot be read for
\* another reason, or that does not parse, it returns an error and no state.
C23_LoadMissingIsZero ==
    [][Loading =>
          /\ rigCfg' = rigCfg
          /\ rigCfg.queue_state_file = FileAbsent
                => /\ cmdOut'.err = ""
                   /\ cmdOut'.state = [Paused |-> FALSE, PausedBy |-> "",
                                       PausedAt |-> "", LastDispatchAt |-> "",
                                       LastDispatchCount |-> 0]
          /\ (rigCfg.queue_state_file = FileUnreadable
                \/ ParseFails(rigCfg.queue_state_file))
                => /\ cmdOut'.err # ""
                   /\ cmdOut'.state = NilState]_vars

\* A load that found no file: the zero state, no error, still no file.
C23_Witness ==
    /\ cmdIn.cmd = "LoadQueueState"
    /\ rigCfg.queue_state_file = FileAbsent
    /\ cmdOut.err = ""
    /\ cmdOut.state = ZeroQueueState

\* ---------------------------------------------------------------- C24
\* The last command was a push, and the branch or tag it pushed to.
Pushed == cmdIn.cmd = "pre-push"

PushedTag == cmdIn.remoteRef[2] = "tags"

PushedBranch == SubSeq(cmdIn.remoteRef, 3, Len(cmdIn.remoteRef))

\* C24: with no offered commit on an integration branch of origin, every push
\* to main exits 0; every push to polecat/*, to integration/* and to a tag
\* exits 0; a push to any other branch exits 1 in a repository without a
\* remote named upstream and 0 in one that has it.
C24_PlainPushRules ==
    Pushed =>
        IF PushedTag THEN cmdOut.exit = 0
        ELSE IF PushedBranch = <<"main">>
        THEN OnOriginIntegration = {} => cmdOut.exit = 0
        ELSE IF PushedBranch[1] \in {"polecat", "integration"}
        THEN cmdOut.exit = 0
        ELSE cmdOut.exit = (IF "upstream" \in gitRepo.remotes THEN 0 ELSE 1)

\* A contributor's clone, with upstream: the push of bugfix/stuff went
\* through.
C24_Witness ==
    /\ Pushed
    /\ cmdIn.remoteRef = <<"refs", "heads", "bugfix", "stuff">>
    /\ "upstream" \in gitRepo.remotes
    /\ cmdOut.exit = 0
    /\ BugfixStuff \in DOMAIN gitRepo.origin
    /\ gitRepo.origin[BugfixStuff] = cmdIn.lsha

\* ---------------------------------------------------------------- C25
\* The edges of the Dance graph: the forward edges, the retry edge, and Failed
\* from every step that is not terminal.
Steps == {StateIdle, StateInterrogating, StateEvaluating, StatePardoned,
          StateExecuting}

ForwardEdges ==
    {<<StateIdle, StateInterrogating>>, <<StateInterrogating, StateEvaluating>>,
     <<StateEvaluating, StatePardoned>>, <<StateEvaluating, StateExecuting>>,
     <<StatePardoned, StateComplete>>, <<StateExecuting, StateComplete>>}

FailedEdges == {<<s, StateFailed>> : s \in Steps}

RetryEdge == <<StateEvaluating, StateInterrogating>>

\* From where Dance a stood (state, attempt) to where b stands: no change, a
\* forward edge with Attempt kept, the retry edge with Attempt one higher, or
\* an edge to Failed, on which Attempt does not go down (the retry whose write
\* failed has counted up already).
OnGraph(a, b) ==
    /\ b.attempt \in 1..3
    /\ \/ a.state = b.state /\ a.attempt = b.attempt
       \/ <<a.state, b.state>> \in ForwardEdges /\ b.attempt = a.attempt
       \/ <<a.state, b.state>> = RetryEdge /\ b.attempt = a.attempt + 1
       \/ <<a.state, b.state>> \in FailedEdges /\ b.attempt >= a.attempt

\* How Recover restarts a Dance from its record: where the record stands, or,
\* from a record in Evaluating, back at Interrogating with Attempt kept.
Restarted(rec, b) ==
    /\ b.attempt \in 1..3
    /\ b.attempt = rec.attempt
    /\ \/ b.state = rec.state
       \/ <<rec.state, b.state>> = RetryEdge

\* A Dance the pool allocates starts in Idle at attempt 1.
AllocatedIdle ==
    up /\ up' =>
        \A id \in DOMAIN active' \ DOMAIN active :
            active'[id].state = StateIdle /\ active'[id].attempt = 1

\* A running Dance moves along the graph.
RunningOnGraph ==
    \A id \in DOMAIN active \cap DOMAIN active' : OnGraph(active[id], active'[id])

Recovering == ~up /\ up'

\* The records Recover finds resolved in the active partition.
FoundResolved ==
    {id \in DOMAIN storeActive :
        storeActive[id].state \in {StatePardoned, StateComplete}}

\* The records a Recover has moved: completed without their Dance's Run having
\* returned to the pool.
MovedByRecover == DOMAIN storeCompleted \ DOMAIN finished

\* Warrant w is with no Dance and not queued.
NotRunning(w, act, pend) ==
    /\ \A id \in DOMAIN act : act[id].warrant # w
    /\ \A i \in 1..Len(pend) : pend[i] # w

\* C26: Recover moves every record of the active partition whose state is
\* Pardoned or Complete to the completed partition, unchanged, and puts it in
\* neither Active nor Pending; from then on no Dance runs for it: the probe is
\* not asked about its target, and no cancel and no terminate is done for it.
C26_ResolvedNotRerun ==
    [][/\ Recovering =>
             \A id \in FoundResolved :
                 /\ id \notin DOMAIN storeActive'
                 /\ id \in DOMAIN storeCompleted'
                 /\ storeCompleted'[id] = storeActive[id]
                 /\ id \notin DOMAIN active'
                 /\ NotRunning(storeActive[id].warrant, active', pending')
       /\ \A id \in MovedByRecover :
             LET w == storeCompleted[id].warrant
             IN /\ id \in DOMAIN storeCompleted'
                /\ storeCompleted'[id] = storeCompleted[id]
                /\ id \notin DOMAIN active'
                /\ NotRunning(w, active', pending')
                /\ cancels'[w.id] = cancels[w.id]
                /\ terminates'[w.id] = terminates[w.id]
                /\ peeked'[w.id] = peeked[w.id]
                /\ sessionUp'[w.id] = sessionUp[w.id]]_vars

\* After a crash between the verdict and the cancel: Recover has moved the
\* Pardoned record, and the pool is running other Dances.
C26_Witness ==
    /\ up
    /\ \E id \in MovedByRecover :
          /\ storeCompleted[id].state = StatePardoned
          /\ id \notin DOMAIN active
          /\ cancels[storeCompleted[id].warrant.id] = 0
    /\ \E id \in MovedByRecover : storeCompleted[id].state = StateComplete
    /\ active # EmptyMap

\* ---------------------------------------------------------------- C27
\* The records Recover finds in Interrogating or Evaluating.
FoundProbing ==
    {id \in DOMAIN storeActive :
        storeActive[id].state \in {StateInterrogating, StateEvaluating}}

\* The probe's output for warrant w is being evaluated.
EvaluatingOutput(w) == peeked'[w] # peeked[w]

FoundUnresolved ==
    {id \in DOMAIN storeActive :
        storeActive[id].state \notin {StatePardoned, StateComplete}}

\* The record that holds warrant w.
RecordOf(w) == CHOOSE id \in DOMAIN storeActive : storeActive[id].warrant = w

ProbeFindsNoSession(id) ==
    /\ id \in DOMAIN active'
    /\ active[id].state \in {StateInterrogating, StateEvaluating}
    /\ active'[id] # active[id]
    /\ ~sessionUp'[active[id].warrant.id]

\* Dance id failed because the probe did not find the session: it is in
\* Failed, no write of it failed, and the session is gone without a terminate.
FailedUnreachable(id) ==
    /\ active[id].state = StateFailed
    /\ active[id].warrant.id \notin saveFailed
    /\ ~sessionUp[active[id].warrant.id]
    /\ terminates[active[id].warrant.id] = 0

\* C29: a Dance whose probe does not find the target session goes to Failed in
\* that step with Attempt unchanged; from then on it takes no step (no retry)
\* and no cancel and no terminate is done for its warrant; and when its Run
\* returns, what the pool is given is the failure.
C29_UnreachableFails ==
    [][\A id \in DOMAIN active :
          /\ ProbeFindsNoSession(id) =>
                /\ active'[id].state = StateFailed
                /\ active'[id].attempt = active[id].attempt
                /\ cancels' = cancels
                /\ terminates' = terminates
          /\ FailedUnreachable(id) =>
                /\ id \in DOMAIN active' => active'[id] = active[id]
                /\ cancels'[active[id].warrant.id]
                      = cancels[active[id].warrant.id]
                /\ terminates'[active[id].warrant.id]
                      = terminates[active[id].warrant.id]
                /\ (up' /\ id \notin DOMAIN active') =>
                      /\ id \in DOMAIN finished'
                      /\ finished'[id].state = StateFailed]_vars

\* The session went away during the second attempt: the Dance's Run has
\* returned Failed at attempt 2, with no cancel and no terminate done.
C29_Witness ==
    \E id \in DOMAIN finished :
        /\ finished[id].state = StateFailed
        /\ finished[id].warrant \notin saveFailed
        /\ ~sessionUp[finished[id].warrant]
        /\ cancels[finished[id].warrant] = 0
        /\ terminates[finished[id].warrant] = 0
        /\ id \in DOMAIN storeCompleted
        /\ storeCompleted[id].state = StateFailed
        /\ storeCompleted[id].attempt = 2

\* ---------------------------------------------------------------- C30
\* A store write fails in this step.
WriteFails == fails' = fails + 1

\* The Dance whose step this is.
Stepping(id) == id \in DOMAIN active' /\ active'[id] # active[id]

\* A protocol action is taken for warrant w in this step: its Dance sends the
\* probe, or a cancel or a terminate is done for it.
ActsFor(w) ==
    \/ cancels'[w] # cancels[w]
    \/ terminates'[w] # terminates[w]
    \/ \E id \in DOMAIN active :
          /\ active[id].warrant.id = w
          /\ active[id].state = StateInterrogating
          /\ Stepping(id)

\* The step whose write fails leaves its Dance in Failed and does neither a
\* cancel nor a terminate.
FailedWriteAborts ==
    WriteFails =>
        /\ \A id \in DOMAIN active : Stepping(id) => active'[id].state = StateFailed
        /\ cancels' = cancels
        /\ terminates' = terminates

AbortKnown(w) ==
    \/ \E id \in DOMAIN active :
          active[id].warrant.id = w /\ active[id].state = StateFailed
    \/ \E id \in DOMAIN storeActive :
          storeActive[id].warrant.id = w /\ storeActive[id].state = StateFailed
    \/ \E id \in DOMAIN storeCompleted :
          storeCompleted[id].warrant.id = w
    \/ \E id \in DOMAIN finished : finished[id].warrant = w

Fails(id) ==
    /\ id \in DOMAIN active'
    /\ active[id].state # StateFailed
    /\ active'[id].state = StateFailed

\* The Run of the failed Dance id returns in this step.
FailedReturns(id) ==
    /\ active[id].state = StateFailed
    /\ up'
    /\ id \notin DOMAIN active'

\* A Dance has failed and returned before.
SomeFailed == \E id \in DOMAIN finished : finished[id].state = StateFailed

\* C31: the step in which one Dance goes to Failed leaves the State and the
\* Attempt of every other Active Dance as they were; when the failed Dance's
\* Run returns, its slot is released: the oldest pending warrant is started in
\* it, or, with nothing pending, Active is below Capacity; and after a
\* failure a Submit of a well-formed warrant is still admitted, into a free
\* slot or onto Pending, without error.
C31_FailureIsolated ==
    [][/\ \A id \in DOMAIN active :
             /\ Fails(id) =>
                   \A other \in DOMAIN active \ {id} :
                      /\ other \in DOMAIN active'
                      /\ active'[other].state = active[other].state
                      /\ active'[other].attempt = active[other].attempt
             /\ FailedReturns(id) =>
                   /\ \A other \in DOMAIN active \ {id} :
                         other \in DOMAIN active' /\ active'[other] = active[other]
                   /\ IF pending = <<>>
                      THEN /\ Cardinality(DOMAIN active') < capacity
                           /\ pending' = <<>>
                      ELSE /\ pending' = Tail(pending)
                           /\ \E new \in DOMAIN active' \ DOMAIN active :
                                 /\ active'[new].warrant = Head(pending)
                                 /\ active'[new].state = StateIdle
       /\ (SomeFailed /\ nextWarrant' = nextWarrant + 1) =>
             /\ submitRet'.err = ErrNone
             /\ IF Cardinality(DOMAIN active) < capacity
                THEN \E new \in DOMAIN active' \ DOMAIN active :
                        active'[new].warrant.id = nextWarrant
                ELSE /\ pending' # <<>>
                     /\ pending'[Len(pending')].id = nextWarrant]_vars

\* One Dance failed and returned; the warrant that waited behind it runs in
\* its place, next to a Dance that is on a later attempt, undisturbed.
C31_Witness ==
    /\ up
    /\ SomeFailed
    /\ \E id \in DOMAIN active :
          /\ active[id].warrant.id \in waited
          /\ active[id].state = StateEvaluating
    /\ \E id \in DOMAIN active :
          /\ active[id].warrant.id \notin waited
          /\ active[id].attempt = 2
          /\ active[id].state = StateEvaluating

\* ---------------------------------------------------------------- C32
\* The Dances that stand in Failed: still in Active, or returned.
FailedIDs ==
    {id \in DOMAIN active : active[id].state = StateFailed}
    \cup {id \in DOMAIN finished : finished[id].state = StateFailed}

\* What is known of Dance id says Failed: the Dance itself or its record.
KnownFailed ==
    FailedIDs
    \cup {id \in DOMAIN storeActive : storeActive[id].state = StateFailed}
    \cup {id \in DOMAIN storeCompleted : storeCompleted[id].state = StateFailed}

\* The warrant Dance id is for.
WarrantOf(id) ==
    IF id \in DOMAIN active THEN active[id].warrant.id
    ELSE IF id \in DOMAIN finished THEN finished[id].warrant
    ELSE IF id \in DOMAIN storeActive THEN storeActive[id].warrant.id
    ELSE storeCompleted[id].warrant.id

\* A failed Dance in Active is in what Status returns, as Failed.
FailedInStatus ==
    \A id \in DOMAIN active :
        active[id].state = StateFailed =>
            \E sum \in Status(active, pending).dances :
                sum.ID = id /\ sum.State = StateFailed

\* A Dance known to have failed is not run again: it leaves Failed by no step,
\* onDanceComplete and Recover included, no probe is sent, no cancel and no
\* terminate is done for its warrant, and the warrant gets no other Dance.
FailedNotRerun ==
    \A id \in KnownFailed :
        /\ id \in DOMAIN active' => active'[id].state = StateFailed
        /\ ~ActsFor(WarrantOf(id))
        /\ assignedTo'[WarrantOf(id)] = assignedTo[WarrantOf(id)]

Polled == cmdOut' /= cmdOut /\ cmdOut'.cmd = "status"

RebaseFFConflict ==
    /\ cmdIn = NoCommand
    /\ cmdIn'.cmd = "doMerge"
    /\ rigCfg.merge_strategy = StrategyRebaseFF
    /\ cmdOut'.Conflict

\* C34: when a rebase-ff doMerge returns a conflict, the branch checked out
\* in the working directory is the target branch, not the source branch.
C34_ConflictRestoresTargetBranch ==
    [][RebaseFFConflict => gitRepo'.current = cmdIn'.target]_vars

\* ---------------------------------------------------------------- C35
\* gt epic create is creating an epic with its integration branch.
CreatingIntegrationBranch ==
    /\ cmdIn = NoCommand
    /\ cmdIn'.cmd = CmdEpicCreate
    /\ cmdOut'.err = ""
    /\ cmdOut'.branch # NoBranch

\* The base branch by the stated priority, for the flags of the command being
\* run and the beads as they were before it.
BaseByPriority ==
    IF cmdIn'.BaseBranch # NoBranch THEN cmdIn'.BaseBranch
    ELSE IF cmdIn'.Parent \in DOMAIN beadsDB
            /\ beadsDB[cmdIn'.Parent].Type = TypeEpic
    THEN beadsDB[cmdIn'.Parent].Description.integration_branch
    ELSE rigCfg.default_branch

CleanValue(v) ==
    /\ \A i \in 1..Len(v) : v[i] # "\n"
    /\ v # <<>> => v[1] \notin WhiteSpace /\ v[Len(v)] \notin WhiteSpace

CleanMetadata(m) ==
    /\ CleanValue(m.TargetRig) /\ CleanValue(m.Formula)
    /\ CleanValue(m.Args) /\ CleanValue(m.Vars)
    /\ CleanValue(m.EnqueuedAt) /\ CleanValue(m.Merge)
    /\ CleanValue(m.Convoy) /\ CleanValue(m.BaseBranch)

\* The description does not contain the delimiter.
DelimiterFree(d) == Index(d, queueMetadataDelimiter) = 0

\* The metadata is being parsed from a description it was just appended to.
ParsingEnqueued ==
    /\ cmdOut.enqueued
    /\ cmdOut.strips = 0
    /\ cmdOut'.parsed # Unparsed
    /\ cmdOut'.text = cmdOut.text

\* C36: for metadata whose field values have no newline and no whitespace at
\* their ends, parsing the formatted block gives the metadata back field for
\* field, empty fields empty, both for the block alone and for the block
\* appended to a description that does not contain the delimiter.
C36_MetadataRoundTrip ==
    [][/\ CleanMetadata(cmdIn.m) =>
             ParseQueueMetadata(FormatQueueMetadata(cmdIn.m)) = cmdIn.m
       /\ ParsingEnqueued /\ CleanMetadata(cmdIn.m) /\ DelimiterFree(cmdIn.d) =>
             cmdOut'.parsed = cmdIn.m]_vars

\* Metadata with a rig value holding ": ", a formula that is the delimiter
\* itself and no merge was appended to a description with a blank line and a
\* line "merge: no", and was parsed back as it was.
C36_Witness ==
    /\ cmdIn.cmd = "queue-metadata"
    /\ cmdIn.d = <<"a", "\n", "\n", "m", "e", "r", "g", "e", ":", " ", "n", "o">>
    /\ cmdIn.m.TargetRig = <<"a", ":", " ", "b">>
    /\ cmdIn.m.Formula = queueMetadataDelimiter
    /\ cmdIn.m.Merge = <<>>
    /\ cmdIn.m.BaseBranch = <<"m", "a", "i", "n">>
    /\ cmdOut.enqueued
    /\ cmdOut.strips = 0
    /\ cmdOut.parsed = cmdIn.m

\* ---------------------------------------------------------------- C37
\* The description has no newline at its end.
NoTrailingNewline(d) == d = <<>> \/ d[Len(d)] # "\n"

\* The queue section is being taken off the description.
Stripping == cmdOut'.strips = cmdOut.strips + 1

\* C37: stripping a description to which a formatted block was appended
\* after a newline gives the description back, when the description had no
\* delimiter and no newline at its end; a description without the delimiter
\* is returned unchanged; stripping what was stripped changes nothing; and
\* ParseQueueMetadata of a stripped description returns nil.
C37_StripRemovesSection ==
    [][Stripping =>
         /\ (/\ cmdOut.enqueued /\ cmdOut.strips = 0
             /\ cmdOut.text = cmdIn.d \o NewLine \o FormatQueueMetadata(cmdIn.m)
             /\ DelimiterFree(cmdIn.d) /\ NoTrailingNewline(cmdIn.d))
                => cmdOut'.text = cmdIn.d
         /\ DelimiterFree(cmdOut.text) => cmdOut'.text = cmdOut.text
         /\ cmdOut.strips > 0 => cmdOut'.text = cmdOut.text
         /\ StripQueueMetadata(cmdOut'.text) = cmdOut'.text
         /\ ParseQueueMetadata(cmdOut'.text) = NilMetadata]_vars

\* A description ending in a space got a queue section, was stripped twice
\* and was parsed: it is the description again, and the answer is nil.
C37_Witness ==
    /\ cmdIn.cmd = "queue-metadata"
    /\ cmdIn.d = <<"a", " ">>
    /\ cmdIn.m.TargetRig = queueMetadataDelimiter
    /\ cmdOut.enqueued
    /\ cmdOut.strips = 2
    /\ cmdOut.text = cmdIn.d
    /\ cmdOut.parsed = NilMetadata

\* ---------------------------------------------------------------- C38
\* A queue that is not paused names no pauser and no pause time.
NoStalePauser(state) ==
    ~state.Paused => state.PausedBy = "" /\ state.PausedAt = ""

\* C38: starting from the zero state of a town without a state file, under
\* any sequence of SetPaused, SetResumed and RecordDispatch, with saves and
\* reloads of the state in between, a state with Paused=false has PausedBy
\* and PausedAt empty; RecordDispatch leaves Paused, PausedBy and PausedAt
\* as they were; and on the state in hand Paused changes only in a SetPaused
\* or a SetResumed.
C38_PauseFieldsConsistent ==
    [][/\ HasState' => NoStalePauser(cmdOut'.state)
       /\ HasState /\ cmdIn'.cmd = "RecordDispatch" =>
             /\ cmdOut'.state.Paused = cmdOut.state.Paused
             /\ cmdOut'.state.PausedBy = cmdOut.state.PausedBy
             /\ cmdOut'.state.PausedAt = cmdOut.state.PausedAt
       /\ (/\ HasState /\ HasState'
           /\ cmdIn'.cmd # "LoadQueueState"
           /\ cmdOut'.state.Paused # cmdOut.state.Paused)
             => cmdIn'.cmd \in {"SetPaused", "SetResumed"}]_vars

\* The queue was paused by the mayor and saved, then resumed, and a dispatch
\* was recorded: the state in hand is not paused, names nobody, and has the
\* dispatch.
C38_Witness ==
    /\ rigCfg = [queue_state_file |->
                    FileBytes(Marshal(QueueState(TRUE, "mayor", "T1", "", 0)))]
    /\ cmdIn.cmd = "RecordDispatch"
    /\ cmdOut.state = QueueState(FALSE, "", "", "T2", 2)

====
